---- MODULE Spec2Model ----
(***************************************************************************)
(* Cat Shield (src/src/main.rs): the session's decision logic.             *)
(*                                                                         *)
(* The model follows main() through startup (exit key, auto-exit timer,   *)
(* event tap) and then the run loop of app.run(), in which the             *)
(* platform invokes, one at a time on the main thread, timer_callback,     *)
(* event_tap_callback and the three pointer handlers of CloseButtonView.   *)
(*                                                                         *)
(* Time.  `mono` is the monotonic clock behind std::time::Instant and      *)
(* `wall` the system clock behind SystemTime, both in whole seconds        *)
(* (get_remaining_seconds truncates with as_secs()).  The wall clock can   *)
(* be set to any value by the environment; the monotonic clock only        *)
(* advances.                                                               *)
(***************************************************************************)
EXTENDS Integers, FiniteSets, Sequences, TLC

(***************************************************************************)
(* Program constants.                                                      *)
(***************************************************************************)
HOLD_DURATION_SECS == 3
MIN_TIMER_SECONDS == 60
MAX_TIMER_SECONDS == 86400
WARNING_SECONDS == 60
KEY_U == 32
KEY_Q == 12
\* u64::MAX, returned by get_remaining_seconds when no countdown is armed.
\* TLC's integers are 32 bits wide, so the largest of them stands for it;
\* every clock value and duration of the model is far below it.
U64_MAX == 2147483647

(***************************************************************************)
(* Bounds of the model.                                                    *)
(***************************************************************************)
\* last value of the monotonic clock
MaxMono == 3
\* wall-clock value at process start
WallStart == 2
\* the countdown durations tried are MIN_TIMER_SECONDS .. + DurSlack
DurSlack == 1
\* terminate() calls and warning messages are counted up to this number
MaxCount == 2
\* a chord string given to ExitKey::parse has at most this many tokens
MaxTokens == 3
\* a duration string given to parse_duration has at most this many components
MaxParts == 2
\* elapsed times and hold durations given to calculate_hold_progress
MaxElapsed == 9
MaxHold == 6

None == "None"

\* Option<Instant>: None is the empty sequence, Some(t) is <<t>>
NoInstant == <<>>
Some(t) == <<t>>

Min(a, b) == IF a <= b THEN a ELSE b

Modifiers == {"cmd", "option", "shift", "ctrl"}
\* a CGEventFlags bit the program never tests
OtherFlags == {"capslock"}
AllFlags == Modifiers \cup OtherFlags

KeyEventTypes == {"KeyDown", "KeyUp", "FlagsChanged"}
TapDisabledTypes == {"TapDisabledByTimeout", "TapDisabledByUserInput"}
\* an event category outside the tap's mask
PointerEventTypes == {"LeftMouseDown"}
\* setup_event_tap's event_mask: keyboard events only
EventMask == KeyEventTypes
EventTypes == KeyEventTypes \cup TapDisabledTypes \cup PointerEventTypes

Keycodes == {KEY_U, KEY_Q}

VARIABLES
  pc,                       \* main()'s position
  wall,                     \* SystemTime::now(), seconds since the epoch
  mono,                     \* Instant::now(), seconds
  MOUSE_DOWN_TIME,          \* Option<Instant>: NoInstant or Some(mono)
  IS_MOUSE_INSIDE,
  AUTO_EXIT_ENABLED,
  AUTO_EXIT_START_TIME,
  AUTO_EXIT_DURATION_SECS,
  WARNING_SHOWN,
  EXIT_KEY_KEYCODE,
  EXIT_KEY_REQUIRES_CMD,
  EXIT_KEY_REQUIRES_OPTION,
  EXIT_KEY_REQUIRES_SHIFT,
  EXIT_KEY_REQUIRES_CTRL,
  EVENT_TAP,                \* "null" or "tap"
  tapEnabled,               \* the platform's enabled flag of the tap
  tapNotice,                \* a pending tap-disabled notification, or None
  terminateCalls,           \* calls of NSApplication::terminate so far
  warningsShown,            \* "Auto-exit in N seconds!" messages so far
  last,                     \* what the most recent handler did
  lastEvent,                \* the event it was given (chord checks only)
  assertion_id,             \* main()'s power assertion: Option<u32>
  buttonDown,               \* the pointer button is held (SpecHold only)
  arg,                      \* the argument a pure function is applied to
  ret                       \* and what it returned

vars == <<pc, wall, mono, MOUSE_DOWN_TIME, IS_MOUSE_INSIDE, AUTO_EXIT_ENABLED,
          AUTO_EXIT_START_TIME, AUTO_EXIT_DURATION_SECS, WARNING_SHOWN,
          EXIT_KEY_KEYCODE, EXIT_KEY_REQUIRES_CMD, EXIT_KEY_REQUIRES_OPTION,
          EXIT_KEY_REQUIRES_SHIFT, EXIT_KEY_REQUIRES_CTRL, EVENT_TAP,
          tapEnabled, tapNotice, terminateCalls, warningsShown, last,
          lastEvent, assertion_id, buttonDown, arg, ret>>

holdVars == <<MOUSE_DOWN_TIME, IS_MOUSE_INSIDE>>
countdownVars == <<AUTO_EXIT_ENABLED, AUTO_EXIT_START_TIME,
                   AUTO_EXIT_DURATION_SECS>>
exitKeyVars == <<EXIT_KEY_KEYCODE, EXIT_KEY_REQUIRES_CMD,
                 EXIT_KEY_REQUIRES_OPTION, EXIT_KEY_REQUIRES_SHIFT,
                 EXIT_KEY_REQUIRES_CTRL>>
tapVars == <<EVENT_TAP, tapEnabled, tapNotice>>
clockVars == <<wall, mono>>
callVars == <<arg, ret>>

(***************************************************************************)
(* Pure functions.                                                         *)
(***************************************************************************)
\* u64::saturating_sub
WrappingSub(a, b) == IF a >= b THEN a - b ELSE U64_MAX - (b - a) + 1
saturating_sub(a, b) == IF a >= b THEN a - b ELSE 0

is_hold_complete_strict(elapsed_secs, hold_duration_secs) ==
  elapsed_secs > hold_duration_secs
is_hold_complete(elapsed_secs, hold_duration_secs) ==
  elapsed_secs >= hold_duration_secs

\* (elapsed / hold).min(1.0), as the fraction <<numerator, denominator>>
calculate_hold_progress_unclamped(elapsed_secs, hold_duration_secs) ==
  <<elapsed_secs, hold_duration_secs>>
calculate_hold_progress(elapsed_secs, hold_duration_secs) ==
  <<Min(elapsed_secs, hold_duration_secs), hold_duration_secs>>

(***************************************************************************)
(* Strings are sequences of characters; a character is a string of length *)
(* one.                                                                    *)
(***************************************************************************)
UpperCase ==
  <<"A", "B", "C", "D", "E", "F", "G", "H", "I", "J", "K", "L", "M", "N",
    "O", "P", "Q", "R", "S", "T", "U", "V", "W", "X", "Y", "Z">>
LowerCase ==
  <<"a", "b", "c", "d", "e", "f", "g", "h", "i", "j", "k", "l", "m", "n",
    "o", "p", "q", "r", "s", "t", "u", "v", "w", "x", "y", "z">>

\* char::to_lowercase
char_to_lowercase(c) ==
  IF \E i \in 1..Len(UpperCase) : UpperCase[i] = c
  THEN LowerCase[CHOOSE i \in 1..Len(UpperCase) : UpperCase[i] = c]
  ELSE c

\* str::to_lowercase
RECURSIVE to_lowercase(_)
to_lowercase(s) ==
  IF s = <<>> THEN <<>>
  ELSE <<char_to_lowercase(Head(s))>> \o to_lowercase(Tail(s))

\* char::is_whitespace
is_whitespace(c) == c \in {" ", "\t"}

\* str::trim
RECURSIVE trim_start(_)
trim_start(s) ==
  IF s # <<>> /\ is_whitespace(Head(s)) THEN trim_start(Tail(s)) ELSE s
RECURSIVE trim_end(_)
trim_end(s) ==
  IF s # <<>> /\ is_whitespace(s[Len(s)])
  THEN trim_end(SubSeq(s, 1, Len(s) - 1))
  ELSE s
trim(s) == trim_end(trim_start(s))

\* str::split(sep): the pieces between the separators, at least one
RECURSIVE split(_, _)
split(s, sep) ==
  IF \E i \in 1..Len(s) : s[i] = sep
  THEN LET i == CHOOSE i \in 1..Len(s) :
                  s[i] = sep /\ \A j \in 1..(i - 1) : s[j] # sep
       IN <<SubSeq(s, 1, i - 1)>> \o split(SubSeq(s, i + 1, Len(s)), sep)
  ELSE <<s>>

\* Result<T, String>
ParseOk(v) == [ok |-> TRUE, value |-> v, err |-> None]
ParseErr(msg) == [ok |-> FALSE, value |-> <<>>, err |-> msg]

(***************************************************************************)
(* The exit key.                                                           *)
(***************************************************************************)
\* ExitKey::default()
DefaultExitKey ==
  [keycode |-> KEY_U, requires_cmd |-> TRUE, requires_option |-> TRUE,
   requires_shift |-> FALSE, requires_ctrl |-> FALSE]

\* keycode_from_name: the rows "u" and "q" of the table and its last row;
\* Option<i64> is <<>> or <<keycode>>
keycode_from_name_or_default(name) ==
  LET lower == to_lowercase(name)
  IN IF lower = <<"q">> THEN <<KEY_Q>> ELSE <<KEY_U>>
keycode_from_name(name) ==
  LET lower == to_lowercase(name)
  IN IF lower = <<"u">> THEN <<KEY_U>>
     ELSE IF lower = <<"q">> THEN <<KEY_Q>>
     ELSE <<>>

\* the error messages of ExitKey::parse, up to their first parameter
ERR_EMPTY == "Exit key cannot be empty"
ERR_FORMAT == "Invalid key combination format"
ERR_MULTIPLE_KEYS == "Multiple keys specified: "
ERR_NO_KEY == "No key specified in combination"
ERR_UNKNOWN_KEY == "Unknown key: "
ERR_NO_MODIFIER ==
  "At least one modifier key required (Cmd, Option, Shift, or Ctrl)"

\* the modifier arms of the match in ExitKey::parse (those spelt in
\* letters), or None for the last arm
modifier_of_short_names(lower) ==
  IF lower = <<"c", "m", "d">> THEN "cmd"
  ELSE IF lower = <<"o", "p", "t">> THEN "option"
  ELSE IF lower = <<"s", "h", "i", "f", "t">> THEN "shift"
  ELSE IF lower = <<"c", "t", "r", "l">> THEN "ctrl"
  ELSE None
modifier_of(lower) ==
  IF lower = <<"c", "m", "d">>
       \/ lower = <<"c", "o", "m", "m", "a", "n", "d">>
  THEN "cmd"
  ELSE IF lower = <<"o", "p", "t">>
            \/ lower = <<"o", "p", "t", "i", "o", "n">>
            \/ lower = <<"a", "l", "t">>
       THEN "option"
       ELSE IF lower = <<"s", "h", "i", "f", "t">>
            THEN "shift"
            ELSE IF lower = <<"c", "t", "r", "l">>
                      \/ lower = <<"c", "o", "n", "t", "r", "o", "l">>
                 THEN "ctrl"
                 ELSE None

\* the for loop of ExitKey::parse over the parts still to come; acc holds
\* the four flags, key_name (Option<&str>: <<>> or <<name>>) and the error
\* the loop returned with, if any
RECURSIVE parse_parts(_, _)
parse_parts(parts, acc) ==
  IF parts = <<>> \/ acc.err # None
  THEN acc
  ELSE LET part == Head(parts)
           lower == to_lowercase(part)
           modifier == modifier_of(lower)
       IN parse_parts(Tail(parts),
            IF modifier = "cmd" THEN [acc EXCEPT !.requires_cmd = TRUE]
            ELSE IF modifier = "option"
                 THEN [acc EXCEPT !.requires_option = TRUE]
            ELSE IF modifier = "shift"
                 THEN [acc EXCEPT !.requires_shift = TRUE]
            ELSE IF modifier = "ctrl"
                 THEN [acc EXCEPT !.requires_ctrl = TRUE]
            ELSE IF acc.key_name # <<>>
                 THEN [acc EXCEPT !.err = ERR_MULTIPLE_KEYS]
                 ELSE [acc EXCEPT !.key_name = <<part>>])

\* if !requires_cmd && !requires_option && !requires_shift && !requires_ctrl
no_modifier_unchecked(cmd, option, shift, ctrl) == FALSE
no_modifier(cmd, option, shift, ctrl) == ~cmd /\ ~option /\ ~shift /\ ~ctrl

\* ExitKey::parse
ExitKey_parse(input0) ==
  LET input == trim(input0)
  IN IF input = <<>>
     THEN ParseErr(ERR_EMPTY)
     ELSE
       LET pieces == split(input, "+")
           parts == [i \in 1..Len(pieces) |-> trim(pieces[i])]
           acc == parse_parts(parts,
                    [requires_cmd |-> FALSE, requires_option |-> FALSE,
                     requires_shift |-> FALSE, requires_ctrl |-> FALSE,
                     key_name |-> <<>>, err |-> None])
       IN IF Len(parts) = 0 THEN ParseErr(ERR_FORMAT)
          ELSE IF acc.err # None THEN ParseErr(acc.err)
          ELSE IF acc.key_name = <<>> THEN ParseErr(ERR_NO_KEY)
          ELSE
            LET key_name == acc.key_name[1]
                keycode == keycode_from_name(key_name)
            IN IF keycode = <<>> THEN ParseErr(ERR_UNKNOWN_KEY)
               ELSE IF no_modifier(acc.requires_cmd, acc.requires_option,
                                   acc.requires_shift, acc.requires_ctrl)
               THEN ParseErr(ERR_NO_MODIFIER)
               ELSE ParseOk([keycode |-> keycode[1],
                             requires_cmd |-> acc.requires_cmd,
                             requires_option |-> acc.requires_option,
                             requires_shift |-> acc.requires_shift,
                             requires_ctrl |-> acc.requires_ctrl])

\* a token of a chord string as it is spelt, with what it stands for: a
\* modifier, a key of the table (and its keycode) or a name the table lacks
Token(text, means, keycode) ==
  [text |-> text, means |-> means, keycode |-> keycode]

\* one spelling of each modifier and of each key
PlainTokens ==
  {Token(<<"c", "m", "d">>, "cmd", 0),
   Token(<<"o", "p", "t", "i", "o", "n">>, "option", 0),
   Token(<<"s", "h", "i", "f", "t">>, "shift", 0),
   Token(<<"c", "t", "r", "l">>, "ctrl", 0),
   Token(<<"u">>, "key", KEY_U),
   Token(<<"q">>, "key", KEY_Q)}

\* the tokens joined by '+'
RECURSIVE JoinTokens(_)
JoinTokens(tokens) ==
  IF tokens = <<>> THEN <<>>
  ELSE IF Len(tokens) = 1 THEN tokens[1].text
  ELSE tokens[1].text \o <<"+">> \o JoinTokens(Tail(tokens))

\* the tokens of the set in the order cmd, option, shift, ctrl, key
RECURSIVE InOrder(_, _)
InOrder(tokens, order) ==
  IF order = <<>> THEN <<>>
  ELSE LET here == {t \in tokens : t.means = Head(order)}
       IN (IF here = {} THEN <<>> ELSE <<CHOOSE t \in here : TRUE>>)
            \o InOrder(tokens, Tail(order))

\* --exit-key strings: any of the modifiers, then at most one key
PlainChords ==
  {JoinTokens(InOrder(ts, <<"cmd", "option", "shift", "ctrl", "key">>)) :
     ts \in {ts \in SUBSET PlainTokens :
               Cardinality({t \in ts : t.means = "key"}) <= 1}}

\* the values ExitKey::parse returns for them
ParsedExitKeys ==
  {ExitKey_parse(s).value : s \in {c \in PlainChords : ExitKey_parse(c).ok}}

\* check_exit_key: the configured chord against a key event
check_exit_key_subset(keycode, flags) ==
  /\ keycode = EXIT_KEY_KEYCODE
  /\ EXIT_KEY_REQUIRES_CMD => "cmd" \in flags
  /\ EXIT_KEY_REQUIRES_OPTION => "option" \in flags
  /\ EXIT_KEY_REQUIRES_SHIFT => "shift" \in flags
  /\ EXIT_KEY_REQUIRES_CTRL => "ctrl" \in flags
check_exit_key(keycode, flags) ==
  IF keycode # EXIT_KEY_KEYCODE
  THEN FALSE
  ELSE LET has_cmd == "cmd" \in flags
           has_option == "option" \in flags
           has_shift == "shift" \in flags
           has_ctrl == "ctrl" \in flags
       IN /\ EXIT_KEY_REQUIRES_CMD = has_cmd
          /\ EXIT_KEY_REQUIRES_OPTION = has_option
          /\ EXIT_KEY_REQUIRES_SHIFT = has_shift
          /\ EXIT_KEY_REQUIRES_CTRL = has_ctrl

\* get_remaining_seconds, reading the wall clock
get_remaining_seconds ==
  IF ~AUTO_EXIT_ENABLED
  THEN U64_MAX
  ELSE LET start == AUTO_EXIT_START_TIME
           duration == AUTO_EXIT_DURATION_SECS
           now == wall
           elapsed == saturating_sub(now, start)
       IN saturating_sub(duration, elapsed)

\* the closure of timer_callback deciding should_exit_from_button
should_exit_from_button ==
  IF MOUSE_DOWN_TIME # NoInstant
  THEN LET start == MOUSE_DOWN_TIME[1]
           is_inside == IS_MOUSE_INSIDE
       IN is_inside /\ is_hold_complete(mono - start, HOLD_DURATION_SECS)
  ELSE FALSE

\* the progress draw_close_button computes
hold_progress ==
  IF MOUSE_DOWN_TIME # NoInstant
  THEN LET start == MOUSE_DOWN_TIME[1]
       IN calculate_hold_progress(mono - start, HOLD_DURATION_SECS)
  ELSE <<0, HOLD_DURATION_SECS>>

(***************************************************************************)
(* u64 arithmetic.  A natural number is the sequence of its digits in base *)
(* LimbBase, least significant first, the last one not zero (zero is the   *)
(* empty sequence); a u64 has at most U64_LIMBS of them.                   *)
(***************************************************************************)
LimbBase == 65536
U64_LIMBS == 4

RECURSIVE BigNorm(_)
BigNorm(x) ==
  IF x # <<>> /\ x[Len(x)] = 0 THEN BigNorm(SubSeq(x, 1, Len(x) - 1)) ELSE x

\* the number n of TLC's integers
RECURSIVE BigFromInt(_)
BigFromInt(n) ==
  IF n = 0 THEN <<>> ELSE <<n % LimbBase>> \o BigFromInt(n \div LimbBase)

\* x * c + carry, for c and carry below 2^15
RECURSIVE BigMulAdd(_, _, _)
BigMulAdd(x, c, carry) ==
  IF x = <<>>
  THEN BigFromInt(carry)
  ELSE LET v == Head(x) * c + carry
       IN <<v % LimbBase>> \o BigMulAdd(Tail(x), c, v \div LimbBase)

BigMul(x, c) == BigNorm(BigMulAdd(x, c, 0))

RECURSIVE BigAddCarry(_, _, _)
BigAddCarry(x, y, carry) ==
  IF x = <<>> /\ y = <<>>
  THEN BigFromInt(carry)
  ELSE LET a == IF x = <<>> THEN 0 ELSE Head(x)
           b == IF y = <<>> THEN 0 ELSE Head(y)
           v == a + b + carry
       IN <<v % LimbBase>>
            \o BigAddCarry(IF x = <<>> THEN <<>> ELSE Tail(x),
                           IF y = <<>> THEN <<>> ELSE Tail(y),
                           v \div LimbBase)

BigAdd(x, y) == BigNorm(BigAddCarry(x, y, 0))

\* x < y
RECURSIVE BigLess(_, _)
BigLess(x, y) ==
  IF Len(x) # Len(y) THEN Len(x) < Len(y)
  ELSE IF x = <<>> THEN FALSE
  ELSE IF x[Len(x)] # y[Len(y)] THEN x[Len(x)] < y[Len(y)]
  ELSE BigLess(BigNorm(SubSeq(x, 1, Len(x) - 1)),
               BigNorm(SubSeq(y, 1, Len(y) - 1)))

\* a number below 2^31 as one of TLC's integers
BigToInt(x) ==
  (IF Len(x) >= 1 THEN x[1] ELSE 0)
    + (IF Len(x) >= 2 THEN x[2] * LimbBase ELSE 0)

fits_u64(x) == Len(x) <= U64_LIMBS

\* the value modulo 2^64
wrapping(x) == BigNorm(SubSeq(x, 1, Min(Len(x), U64_LIMBS)))

\* an arithmetic result x that may exceed u64: with overflow checks (the
\* dev profile) the operation panics, without (the release profile) it
\* wraps
PANIC_OVERFLOW == "attempt to multiply or add with overflow"
u64_result(x, overflow_checks) ==
  IF fits_u64(x) THEN [panic |-> FALSE, value |-> x]
  ELSE IF overflow_checks THEN [panic |-> TRUE, value |-> <<>>]
  ELSE [panic |-> FALSE, value |-> wrapping(x)]

Digits == <<"0", "1", "2", "3", "4", "5", "6", "7", "8", "9">>

\* char::is_ascii_digit
is_ascii_digit(c) == \E i \in 1..Len(Digits) : Digits[i] = c

DigitValue(c) == (CHOOSE i \in 1..Len(Digits) : Digits[i] = c) - 1

\* the number a string of digits writes
RECURSIVE BigFromDigits(_, _)
BigFromDigits(digits, acc) ==
  IF digits = <<>> THEN BigNorm(acc)
  ELSE BigFromDigits(Tail(digits),
                     BigMulAdd(acc, 10, DigitValue(Head(digits))))

\* str::parse::<u64>() of a non-empty string of digits: None (<<>>) on
\* overflow, Some(n) (<<n>>) otherwise
parse_u64(digits) ==
  LET n == BigFromDigits(digits, <<>>)
  IN IF fits_u64(n) THEN <<n>> ELSE <<>>

(***************************************************************************)
(* parse_duration and format_duration.                                     *)
(***************************************************************************)
ERR_DURATION_EMPTY == "Duration cannot be empty"
ERR_MISSING_NUMBER == "Missing number before "
ERR_INVALID_NUMBER == "Invalid number: "
ERR_INVALID_CHARACTER == "Invalid character in duration: "
ERR_DURATION_ZERO == "Duration must be greater than zero"
ERR_DURATION_TOO_SHORT == "Duration must be at least "
ERR_DURATION_TOO_LONG == "Duration must not exceed "

\* a panic in place of a return
Panicked(msg) == [ok |-> FALSE, value |-> <<>>, err |-> None, panic |-> msg]

\* the seconds in one unit of a component: hours * 3600, minutes * 60, secs
SECS_PER_HOUR == 3600
SECS_PER_MINUTE == 60
unit_seconds(c) ==
  IF c = "h" THEN SECS_PER_HOUR ELSE IF c = "m" THEN SECS_PER_MINUTE ELSE 1

\* total_seconds += number * unit, in u64 arithmetic; out is the early
\* return (or the panic) this ends with, if any
add_component(acc, current_num, unit, overflow_checks) ==
  LET number == parse_u64(current_num)
  IN IF number = <<>>
     THEN [acc EXCEPT !.done = TRUE, !.out = ParseErr(ERR_INVALID_NUMBER)]
     ELSE
       LET product == u64_result(BigMul(number[1], unit), overflow_checks)
       IN IF product.panic
          THEN [acc EXCEPT !.done = TRUE, !.out = Panicked(PANIC_OVERFLOW)]
          ELSE
            LET sum == u64_result(BigAdd(acc.total_seconds, product.value),
                                  overflow_checks)
            IN IF sum.panic
               THEN [acc EXCEPT !.done = TRUE,
                                !.out = Panicked(PANIC_OVERFLOW)]
               ELSE [acc EXCEPT !.total_seconds = sum.value,
                                !.current_num = <<>>]

\* the for loop of parse_duration over the characters still to come
RECURSIVE duration_chars(_, _, _)
duration_chars(chars, acc, overflow_checks) ==
  IF chars = <<>> \/ acc.done
  THEN acc
  ELSE LET c == Head(chars)
       IN duration_chars(Tail(chars),
            IF is_ascii_digit(c)
            THEN [acc EXCEPT !.current_num = acc.current_num \o <<c>>]
            ELSE IF c = "h" \/ c = "m" \/ c = "s"
            THEN IF acc.current_num = <<>>
                 THEN [acc EXCEPT !.done = TRUE,
                                  !.out = ParseErr(ERR_MISSING_NUMBER)]
                 ELSE add_component(acc, acc.current_num, unit_seconds(c),
                                    overflow_checks)
            ELSE IF ~is_whitespace(c)
            THEN [acc EXCEPT !.done = TRUE,
                             !.out = ParseErr(ERR_INVALID_CHARACTER)]
            ELSE acc,
            overflow_checks)

\* parse_duration; overflow_checks: the build profile's setting
parse_duration(s0, overflow_checks) ==
  LET s == to_lowercase(trim(s0))
  IN IF s = <<>>
     THEN ParseErr(ERR_DURATION_EMPTY)
     ELSE
       LET looped == duration_chars(s,
                       [total_seconds |-> <<>>, current_num |-> <<>>,
                        done |-> FALSE, out |-> ParseErr(None)],
                       overflow_checks)
           \* remaining digits without a unit: minutes
           final == IF ~looped.done /\ looped.current_num # <<>>
                    THEN add_component(looped, looped.current_num,
                                       SECS_PER_MINUTE, overflow_checks)
                    ELSE looped
           total_seconds == final.total_seconds
       IN IF final.done THEN final.out
          ELSE IF total_seconds = <<>>
          THEN ParseErr(ERR_DURATION_ZERO)
          ELSE IF BigLess(total_seconds, BigFromInt(MIN_TIMER_SECONDS))
          THEN ParseErr(ERR_DURATION_TOO_SHORT)
          ELSE IF BigLess(BigFromInt(MAX_TIMER_SECONDS), total_seconds)
          THEN ParseErr(ERR_DURATION_TOO_LONG)
          ELSE ParseOk(BigToInt(total_seconds))

\* u64's Display: the decimal digits of n
RECURSIVE to_string(_)
to_string(n) ==
  IF n < 10 THEN <<Digits[n + 1]>>
  ELSE to_string(n \div 10) \o <<Digits[(n % 10) + 1]>>

\* {:02}
pad2(n) == IF n < 10 THEN <<"0">> \o to_string(n) ELSE to_string(n)

\* (total_secs % 3600) / 60
minutes_of_total(total_secs) == total_secs \div SECS_PER_MINUTE
minutes_of(total_secs) == (total_secs % SECS_PER_HOUR) \div SECS_PER_MINUTE

\* format_duration
format_duration(total_secs) ==
  LET hours == total_secs \div SECS_PER_HOUR
      minutes == minutes_of(total_secs)
      secs == total_secs % SECS_PER_MINUTE
  IN IF hours > 0
     THEN to_string(hours) \o <<"h", " ">> \o pad2(minutes) \o <<"m", " ">>
            \o pad2(secs) \o <<"s">>
     ELSE IF minutes > 0
          THEN to_string(minutes) \o <<"m", " ">> \o pad2(secs) \o <<"s">>
          ELSE to_string(secs) \o <<"s">>

(***************************************************************************)
(* Observations.                                                           *)
(***************************************************************************)
NoEvent == [type |-> None, keycode |-> 0, flags |-> {}]

\* handler: the handler that ran; reason: the reason it called terminate
\* for, or None; warned: it emitted the countdown warning; effect: what
\* else it did (an event passed or suppressed, a press discarded, the
\* pointer's exit from or entry into the button)
Obs(handler, reason, warned, effect) ==
  [handler |-> handler, reason |-> reason, warned |-> warned,
   effect |-> effect]

NoObs == Obs(None, None, FALSE, None)

\* NSApplication::terminate(None): counted; the process may be gone when
\* the call is over (exited = TRUE) or the call may return to the handler
\* with the run loop still turning (main() cleans up after app.run()).
Terminate(exited) ==
  /\ terminateCalls' = Min(terminateCalls + 1, MaxCount)
  /\ pc' = IF exited THEN "exited" ELSE pc

(***************************************************************************)
(* Startup: main().                                                        *)
(***************************************************************************)
\* the value of arg and ret while no pure function is being applied
NoCall == [fn |-> None]

\* the statics as the program text initialises them, main() at its start
InitSession ==
  /\ pc = "set_exit_key"
  /\ wall = WallStart
  /\ mono = 0
  /\ MOUSE_DOWN_TIME = NoInstant
  /\ IS_MOUSE_INSIDE = FALSE
  /\ AUTO_EXIT_ENABLED = FALSE
  /\ AUTO_EXIT_START_TIME = 0
  /\ AUTO_EXIT_DURATION_SECS = 0
  /\ WARNING_SHOWN = FALSE
  /\ EXIT_KEY_KEYCODE = KEY_U
  /\ EXIT_KEY_REQUIRES_CMD = TRUE
  /\ EXIT_KEY_REQUIRES_OPTION = TRUE
  /\ EXIT_KEY_REQUIRES_SHIFT = FALSE
  /\ EXIT_KEY_REQUIRES_CTRL = FALSE
  /\ EVENT_TAP = "null"
  /\ tapEnabled = FALSE
  /\ tapNotice = None
  /\ terminateCalls = 0
  /\ warningsShown = 0
  /\ last = NoObs
  /\ lastEvent = NoEvent
  /\ assertion_id = NoInstant
  /\ buttonDown = FALSE

Init ==
  /\ InitSession
  /\ arg = NoCall
  /\ ret = NoCall

\* set_exit_key(&exit_key)
set_exit_key(key) ==
  /\ EXIT_KEY_KEYCODE' = key.keycode
  /\ EXIT_KEY_REQUIRES_CMD' = key.requires_cmd
  /\ EXIT_KEY_REQUIRES_OPTION' = key.requires_option
  /\ EXIT_KEY_REQUIRES_SHIFT' = key.requires_shift
  /\ EXIT_KEY_REQUIRES_CTRL' = key.requires_ctrl

\* the exit keys a session of the model is started with
SessionExitKeys == {DefaultExitKey}

\* main(): exit key from the command line, the config file or the default
MainSetExitKey(keys) ==
  /\ pc = "set_exit_key"
  /\ \E key \in keys : set_exit_key(key)
  /\ pc' = "auto_exit"
  /\ UNCHANGED <<clockVars, holdVars, countdownVars, WARNING_SHOWN, tapVars,
                 terminateCalls, warningsShown, last, lastEvent>>
  /\ UNCHANGED <<assertion_id, buttonDown, callVars>>

\* init_auto_exit_timer(duration_secs)
init_auto_exit_timer(duration_secs) ==
  LET now == wall
  IN /\ AUTO_EXIT_START_TIME' = now
     /\ AUTO_EXIT_DURATION_SECS' = duration_secs
     /\ AUTO_EXIT_ENABLED' = TRUE

\* the values of args.timer the model tries
TimerDurations == MIN_TIMER_SECONDS .. (MIN_TIMER_SECONDS + DurSlack)

\* main(): if let Some(duration_secs) = args.timer
MainAutoExitTimer ==
  /\ pc = "auto_exit"
  /\ \E d \in TimerDurations : init_auto_exit_timer(d)
  /\ pc' = "prevent_sleep"
  /\ UNCHANGED <<clockVars, holdVars, WARNING_SHOWN, exitKeyVars, tapVars,
                 terminateCalls, warningsShown, last, lastEvent>>
  /\ UNCHANGED <<assertion_id, buttonDown, callVars>>

\* main(): args.timer is None
MainNoTimer ==
  /\ pc = "auto_exit"
  /\ pc' = "prevent_sleep"
  /\ UNCHANGED <<clockVars, holdVars, countdownVars, WARNING_SHOWN,
                 exitKeyVars, tapVars, terminateCalls, warningsShown, last,
                 lastEvent>>
  /\ UNCHANGED <<assertion_id, buttonDown, callVars>>

\* prevent_sleep(): the power assertion is created (Some(id)) or the
\* platform refuses it (None); main() goes on either way
MainPreventSleep ==
  /\ pc = "prevent_sleep"
  /\ \E id \in {NoInstant, <<1>>} : assertion_id' = id
  /\ pc' = "event_tap"
  /\ UNCHANGED <<clockVars, holdVars, countdownVars, WARNING_SHOWN,
                 exitKeyVars, tapVars, terminateCalls, warningsShown, last,
                 lastEvent, buttonDown, callVars>>

\* setup_event_tap() returning true: tap created, stored and enabled
SetupEventTapOk ==
  /\ pc = "event_tap"
  /\ EVENT_TAP' = "tap"
  /\ tapEnabled' = TRUE
  /\ tapNotice' = None
  /\ pc' = "run"
  /\ UNCHANGED <<clockVars, holdVars, countdownVars, WARNING_SHOWN,
                 exitKeyVars, terminateCalls, warningsShown, last, lastEvent>>
  /\ UNCHANGED <<assertion_id, buttonDown, callVars>>

\* setup_event_tap() returning false, were main() to give up on it
SetupEventTapFailAborts ==
  /\ pc = "event_tap"
  /\ EVENT_TAP' = "null"
  /\ tapEnabled' = FALSE
  /\ tapNotice' = None
  /\ pc' = "exited"
  /\ UNCHANGED <<clockVars, holdVars, countdownVars, WARNING_SHOWN,
                 exitKeyVars, terminateCalls, warningsShown, last, lastEvent>>
  /\ UNCHANGED <<assertion_id, buttonDown, callVars>>

\* setup_event_tap() returning false: no tap, or no run-loop source
SetupEventTapFail ==
  /\ pc = "event_tap"
  /\ EVENT_TAP' = "null"
  /\ tapEnabled' = FALSE
  /\ tapNotice' = None
  /\ pc' = "run"
  /\ UNCHANGED <<clockVars, holdVars, countdownVars, WARNING_SHOWN,
                 exitKeyVars, terminateCalls, warningsShown, last, lastEvent>>
  /\ UNCHANGED <<assertion_id, buttonDown, callVars>>

(***************************************************************************)
(* The clocks.                                                             *)
(***************************************************************************)
\* one second passes: both clocks advance
Elapse ==
  /\ pc = "run"
  /\ mono < MaxMono
  /\ mono' = mono + 1
  /\ wall' = wall + 1
  /\ UNCHANGED <<pc, holdVars, countdownVars, WARNING_SHOWN, exitKeyVars,
                 tapVars, terminateCalls, warningsShown, last, lastEvent>>
  /\ UNCHANGED <<assertion_id, buttonDown, callVars>>

\* the wall-clock values a clock change (or a suspension of the process)
\* leads to: before the arming time, one second before the earliest
\* deadline, and past every deadline
ClockTargets ==
  {WallStart - 1,
   WallStart + MIN_TIMER_SECONDS - 1,
   WallStart + MIN_TIMER_SECONDS + DurSlack}

\* the system clock is set, forwards or backwards; Instant is not affected
ClockChange ==
  /\ pc = "run"
  /\ \E w \in ClockTargets : w # wall /\ wall' = w
  /\ UNCHANGED <<pc, mono, holdVars, countdownVars, WARNING_SHOWN,
                 exitKeyVars, tapVars, terminateCalls, warningsShown, last,
                 lastEvent>>
  /\ UNCHANGED <<assertion_id, buttonDown, callVars>>

(***************************************************************************)
(* The periodic tick.                                                      *)
(***************************************************************************)
\* remaining <= WARNING_SECONDS && !WARNING_SHOWN.swap(true, SeqCst)
warning_due_every_tick(remaining) == remaining <= WARNING_SECONDS
warning_due(remaining) == remaining <= WARNING_SECONDS /\ ~WARNING_SHOWN

\* if remaining == 0
timer_expired_early(remaining) == remaining <= 1
timer_expired(remaining) == remaining = 0

\* that branch with the expiry tested only on a tick that gives no warning
AutoExitCheckWarnElseExpire ==
  LET remaining == get_remaining_seconds
      warn == warning_due(remaining)
  IN /\ WARNING_SHOWN' = (WARNING_SHOWN \/ remaining <= WARNING_SECONDS)
     /\ warningsShown' = IF warn THEN Min(warningsShown + 1, MaxCount)
                                 ELSE warningsShown
     /\ IF ~warn /\ timer_expired(remaining)
        THEN /\ \E exited \in BOOLEAN : Terminate(exited)
             /\ last' = Obs("timer", "TimerExpired", warn, None)
        ELSE /\ last' = Obs("timer", None, warn, None)
             /\ UNCHANGED <<pc, terminateCalls>>

\* the branch of timer_callback taken when the hold is not complete and a
\* countdown is armed
AutoExitCheck ==
  LET remaining == get_remaining_seconds
      warn == warning_due(remaining)
  IN /\ WARNING_SHOWN' = (WARNING_SHOWN \/ remaining <= WARNING_SECONDS)
     /\ warningsShown' = IF warn THEN Min(warningsShown + 1, MaxCount)
                                 ELSE warningsShown
     /\ IF timer_expired(remaining)
        THEN /\ \E exited \in BOOLEAN : Terminate(exited)
             /\ last' = Obs("timer", "TimerExpired", warn, None)
        ELSE /\ last' = Obs("timer", None, warn, None)
             /\ UNCHANGED <<pc, terminateCalls>>

\* timer_callback with the countdown examined before the hold
TimerCallbackCountdownFirst ==
  /\ pc = "run"
  /\ IF AUTO_EXIT_ENABLED
     THEN LET remaining == get_remaining_seconds
              warn == warning_due(remaining)
          IN /\ WARNING_SHOWN' = (WARNING_SHOWN
                                    \/ remaining <= WARNING_SECONDS)
             /\ warningsShown' = IF warn
                                 THEN Min(warningsShown + 1, MaxCount)
                                 ELSE warningsShown
             /\ IF timer_expired(remaining)
                THEN /\ \E exited \in BOOLEAN : Terminate(exited)
                     /\ last' = Obs("timer", "TimerExpired", warn, None)
                ELSE IF should_exit_from_button
                     THEN /\ \E exited \in BOOLEAN : Terminate(exited)
                          /\ last' = Obs("timer", "HoldCompleted", warn,
                                         None)
                     ELSE /\ last' = Obs("timer", None, warn, None)
                          /\ UNCHANGED <<pc, terminateCalls>>
     ELSE /\ UNCHANGED <<WARNING_SHOWN, warningsShown>>
          /\ IF should_exit_from_button
             THEN /\ \E exited \in BOOLEAN : Terminate(exited)
                  /\ last' = Obs("timer", "HoldCompleted", FALSE, None)
             ELSE /\ last' = Obs("timer", None, FALSE, None)
                  /\ UNCHANGED <<pc, terminateCalls>>
  /\ lastEvent' = NoEvent
  /\ UNCHANGED <<clockVars, holdVars, countdownVars, exitKeyVars, tapVars>>
  /\ UNCHANGED <<assertion_id, buttonDown, callVars>>

\* timer_callback, were it to report a complete hold once and clear the
\* press
TimerCallbackConsumesHold ==
  /\ pc = "run"
  /\ IF should_exit_from_button
     THEN /\ \E exited \in BOOLEAN : Terminate(exited)
          /\ last' = Obs("timer", "HoldCompleted", FALSE, None)
          /\ MOUSE_DOWN_TIME' = NoInstant
          /\ UNCHANGED <<IS_MOUSE_INSIDE, WARNING_SHOWN, warningsShown>>
     ELSE /\ UNCHANGED holdVars
          /\ IF AUTO_EXIT_ENABLED
             THEN AutoExitCheck
             ELSE /\ last' = Obs("timer", None, FALSE, None)
                  /\ UNCHANGED <<pc, terminateCalls, WARNING_SHOWN,
                                 warningsShown>>
  /\ lastEvent' = NoEvent
  /\ UNCHANGED <<clockVars, countdownVars, exitKeyVars, tapVars>>
  /\ UNCHANGED <<assertion_id, buttonDown, callVars>>

\* timer_callback
TimerCallback ==
  /\ pc = "run"
  /\ IF should_exit_from_button
     THEN /\ \E exited \in BOOLEAN : Terminate(exited)
          /\ last' = Obs("timer", "HoldCompleted", FALSE, None)
          /\ UNCHANGED <<WARNING_SHOWN, warningsShown>>
     ELSE IF AUTO_EXIT_ENABLED
          THEN AutoExitCheck
          ELSE /\ last' = Obs("timer", None, FALSE, None)
               /\ UNCHANGED <<pc, terminateCalls, WARNING_SHOWN,
                              warningsShown>>
  /\ lastEvent' = NoEvent
  /\ UNCHANGED <<clockVars, holdVars, countdownVars, exitKeyVars, tapVars>>
  /\ UNCHANGED <<assertion_id, buttonDown, callVars>>

(***************************************************************************)
(* The pointer handlers of CloseButtonView.                                *)
(***************************************************************************)
\* mouseDown: recording the press time and leaving the inside flag
mouse_down_time_only ==
  /\ pc = "run"
  /\ MOUSE_DOWN_TIME' = Some(mono)
  /\ last' = Obs("mouse_down", None, FALSE, None)
  /\ lastEvent' = NoEvent
  /\ UNCHANGED <<pc, clockVars, IS_MOUSE_INSIDE, countdownVars,
                 WARNING_SHOWN, exitKeyVars, tapVars, terminateCalls,
                 warningsShown>>
  /\ UNCHANGED <<assertion_id, callVars>>

\* mouseDown:
mouse_down ==
  /\ pc = "run"
  /\ MOUSE_DOWN_TIME' = Some(mono)
  /\ IS_MOUSE_INSIDE' = TRUE
  /\ last' = Obs("mouse_down", None, FALSE, None)
  /\ lastEvent' = NoEvent
  /\ UNCHANGED <<pc, clockVars, countdownVars, WARNING_SHOWN, exitKeyVars,
                 tapVars, terminateCalls, warningsShown>>
  /\ UNCHANGED <<assertion_id, callVars>>

\* mouseUp: clearing the inside flag and leaving the press time
mouse_up_clears_inside ==
  /\ pc = "run"
  /\ IS_MOUSE_INSIDE' = FALSE
  /\ last' = Obs("mouse_up", None, FALSE,
                 IF MOUSE_DOWN_TIME # NoInstant THEN "discard" ELSE None)
  /\ lastEvent' = NoEvent
  /\ UNCHANGED <<pc, clockVars, MOUSE_DOWN_TIME, countdownVars,
                 WARNING_SHOWN, exitKeyVars, tapVars, terminateCalls,
                 warningsShown>>
  /\ UNCHANGED <<assertion_id, callVars>>

\* mouseUp:
mouse_up ==
  /\ pc = "run"
  /\ MOUSE_DOWN_TIME' = NoInstant
  /\ last' = Obs("mouse_up", None, FALSE,
                 IF MOUSE_DOWN_TIME # NoInstant THEN "discard" ELSE None)
  /\ lastEvent' = NoEvent
  /\ UNCHANGED <<pc, clockVars, IS_MOUSE_INSIDE, countdownVars,
                 WARNING_SHOWN, exitKeyVars, tapVars, terminateCalls,
                 warningsShown>>
  /\ UNCHANGED <<assertion_id, callVars>>

\* mouseDragged, the press time written when the inside state flips:
\* reset if the pointer left the button, restarted if it re-entered
drag_press_time_kept(is_inside) == MOUSE_DOWN_TIME
drag_press_time(is_inside) ==
  IF ~is_inside THEN NoInstant ELSE Some(mono)

\* mouseDragged: with the pointer inside the button's bounds or not
mouse_dragged(is_inside) ==
  /\ pc = "run"
  /\ LET was_inside == IS_MOUSE_INSIDE
     IN IF is_inside # was_inside
        THEN /\ IS_MOUSE_INSIDE' = is_inside
             /\ MOUSE_DOWN_TIME' = drag_press_time(is_inside)
             /\ last' = Obs("mouse_dragged", None, FALSE,
                            IF is_inside THEN "enter" ELSE "exit")
        ELSE /\ UNCHANGED holdVars
             /\ last' = Obs("mouse_dragged", None, FALSE, None)
  /\ lastEvent' = NoEvent
  /\ UNCHANGED <<pc, clockVars, countdownVars, WARNING_SHOWN, exitKeyVars,
                 tapVars, terminateCalls, warningsShown>>
  /\ UNCHANGED <<assertion_id, callVars>>

(***************************************************************************)
(* The event tap.                                                          *)
(***************************************************************************)
Events(types, keycodes, flagSets) ==
  [type : types, keycode : keycodes, flags : flagSets]

\* the events a session of the model sees
SessionEvents ==
  Events(EventMask \cup TapDisabledTypes, Keycodes,
         {{"cmd", "option"}, {"cmd", "option", "shift"},
          {"cmd", "shift", "capslock"}})

\* every key event: each keycode with each set of flags
AllKeyEvents == Events(KeyEventTypes, Keycodes, SUBSET AllFlags)

\* the platform disables the tap and queues the notification for the
\* callback
TapRevoke(kind) ==
  /\ pc = "run"
  /\ tapEnabled
  /\ tapEnabled' = FALSE
  /\ tapNotice' = kind
  /\ UNCHANGED <<pc, clockVars, holdVars, countdownVars, WARNING_SHOWN,
                 exitKeyVars, EVENT_TAP, terminateCalls, warningsShown, last,
                 lastEvent>>
  /\ UNCHANGED <<assertion_id, buttonDown, callVars>>

\* the platform hands the callback an event only through an installed tap:
\* the notification of a revocation, or, while the tap is enabled, an event
\* of a type in the tap's mask
Delivered(e) ==
  /\ EVENT_TAP # "null"
  /\ IF e.type \in TapDisabledTypes
     THEN tapNotice = e.type
     ELSE tapEnabled /\ e.type \in EventMask

\* event_type == CGEventType::KeyDown
is_key_event(event_type) == event_type \in KeyEventTypes
is_key_down(event_type) == event_type = "KeyDown"

\* event_type == KeyDown || event_type == KeyUp || event_type == FlagsChanged
blocks_event_all(event_type) == event_type \notin TapDisabledTypes
blocks_event(event_type) ==
  \/ event_type = "KeyDown"
  \/ event_type = "KeyUp"
  \/ event_type = "FlagsChanged"

\* what event_tap_callback returns for an event: the event itself ("pass")
\* or the null pointer ("suppress")
event_tap_returns(event_type, keycode, flags) ==
  IF event_type \in TapDisabledTypes
  THEN "pass"
  ELSE IF is_key_down(event_type) /\ check_exit_key(keycode, flags)
       THEN "pass"
       ELSE IF blocks_event(event_type) THEN "suppress" ELSE "pass"

\* CGEventTapEnable(tap, true) unless the stored pointer is null
tap_left_disabled(enabled) == enabled
tap_reenabled(enabled) == IF EVENT_TAP # "null" THEN TRUE ELSE enabled

\* event_tap_callback, were it to discard the press of the close button
\* whenever it suppresses an event
event_tap_callback_cancels_hold(e, keep) ==
  /\ pc = "run"
  /\ Delivered(e)
  /\ lastEvent' = IF keep THEN e ELSE NoEvent
  /\ LET returns == event_tap_returns(e.type, e.keycode, e.flags)
     IN /\ MOUSE_DOWN_TIME' = IF returns = "suppress" THEN NoInstant
                                                       ELSE MOUSE_DOWN_TIME
        /\ IF e.type \in TapDisabledTypes
           THEN /\ tapEnabled' = tap_reenabled(tapEnabled)
                /\ tapNotice' = None
                /\ last' = Obs("event_tap", None, FALSE, returns)
                /\ UNCHANGED <<pc, terminateCalls>>
           ELSE IF is_key_down(e.type) /\ check_exit_key(e.keycode, e.flags)
                THEN /\ \E exited \in BOOLEAN : Terminate(exited)
                     /\ last' = Obs("event_tap", "ChordMatched", FALSE,
                                    returns)
                     /\ UNCHANGED <<tapEnabled, tapNotice>>
                ELSE /\ last' = Obs("event_tap", None, FALSE, returns)
                     /\ UNCHANGED <<pc, terminateCalls, tapEnabled,
                                    tapNotice>>
  /\ UNCHANGED <<clockVars, IS_MOUSE_INSIDE, countdownVars, WARNING_SHOWN,
                 exitKeyVars, EVENT_TAP, warningsShown>>
  /\ UNCHANGED <<assertion_id, buttonDown, callVars>>

\* event_tap_callback; keep: the observation records the event
event_tap_callback(e, keep) ==
  /\ pc = "run"
  /\ Delivered(e)
  /\ lastEvent' = IF keep THEN e ELSE NoEvent
  /\ LET returns == event_tap_returns(e.type, e.keycode, e.flags)
     IN IF e.type \in TapDisabledTypes
        THEN /\ tapEnabled' = tap_reenabled(tapEnabled)
             /\ tapNotice' = None
             /\ last' = Obs("event_tap", None, FALSE, returns)
             /\ UNCHANGED <<pc, terminateCalls>>
        ELSE IF is_key_down(e.type) /\ check_exit_key(e.keycode, e.flags)
             THEN /\ \E exited \in BOOLEAN : Terminate(exited)
                  /\ last' = Obs("event_tap", "ChordMatched", FALSE, returns)
                  /\ UNCHANGED <<tapEnabled, tapNotice>>
             ELSE /\ last' = Obs("event_tap", None, FALSE, returns)
                  /\ UNCHANGED <<pc, terminateCalls, tapEnabled, tapNotice>>
  /\ UNCHANGED <<clockVars, holdVars, countdownVars, WARNING_SHOWN,
                 exitKeyVars, EVENT_TAP, warningsShown>>
  /\ UNCHANGED <<assertion_id, buttonDown, callVars>>

\* an event the tap does not receive (its type is outside the mask, or no
\* enabled tap is installed) goes on to its destination as it is
EventNotTapped(e) ==
  /\ pc = "run"
  /\ e.type \notin TapDisabledTypes
  /\ ~Delivered(e)
  /\ lastEvent' = e
  /\ last' = Obs(None, None, FALSE, "pass")
  /\ UNCHANGED <<pc, clockVars, holdVars, countdownVars, WARNING_SHOWN,
                 exitKeyVars, tapVars, terminateCalls, warningsShown,
                 assertion_id, buttonDown, callVars>>

(***************************************************************************)
(* The session.                                                            *)
(***************************************************************************)
Next ==
  \/ MainSetExitKey(SessionExitKeys)
  \/ MainAutoExitTimer
  \/ MainNoTimer
  \/ MainPreventSleep
  \/ SetupEventTapOk
  \/ SetupEventTapFail
  \/ Elapse
  \/ ClockChange
  \/ TimerCallback
  \/ mouse_down /\ UNCHANGED buttonDown
  \/ mouse_up /\ UNCHANGED buttonDown
  \/ \E is_inside \in BOOLEAN :
       mouse_dragged(is_inside) /\ UNCHANGED buttonDown
  \/ \E kind \in TapDisabledTypes : TapRevoke(kind)
  \/ \E e \in SessionEvents : event_tap_callback(e, FALSE)

Spec == Init /\ [][Next]_vars

(***************************************************************************)
(* Chord matching: a session started with any exit key ExitKey::parse or   *)
(* ExitKey::default can produce, given every key event.                    *)
(***************************************************************************)
NextChord ==
  \/ MainSetExitKey(ParsedExitKeys \cup {DefaultExitKey})
  \/ MainNoTimer
  \/ MainPreventSleep
  \/ SetupEventTapOk
  \/ \E e \in AllKeyEvents : event_tap_callback(e, TRUE)

SpecChord == Init /\ [][NextChord]_vars

(***************************************************************************)
(* Interception: events of every category arrive; the tap's mask decides   *)
(* which of them the callback is given.                                    *)
(***************************************************************************)
\* every event: each type with each keycode and each set of flags
AllEvents == Events(EventTypes, Keycodes, SUBSET AllFlags)

\* the events of every category a session of the model sees
TapEvents ==
  Events(EventTypes, Keycodes,
         {{"cmd", "option"}, {"cmd", "shift", "capslock"}, {}})

NextTap ==
  \/ MainSetExitKey(ParsedExitKeys \cup {DefaultExitKey})
  \/ MainNoTimer
  \/ MainPreventSleep
  \/ SetupEventTapOk
  \/ SetupEventTapFail
  \/ \E kind \in TapDisabledTypes : TapRevoke(kind)
  \/ \E e \in TapEvents : event_tap_callback(e, TRUE)
  \/ \E e \in TapEvents : EventNotTapped(e)

SpecTap == Init /\ [][NextTap]_vars

(***************************************************************************)
(* ExitKey::parse applied to chord strings.                                *)
(***************************************************************************)
\* spellings of the tokens: synonyms, upper case, blanks around the token,
\* a name the key table lacks and a token of blanks only
SpeltTokens ==
  {Token(<<"c", "m", "d">>, "cmd", 0),
   Token(<<"C", "o", "m", "m", "a", "n", "d">>, "cmd", 0),
   Token(<<"O", "p", "t", "i", "o", "n">>, "option", 0),
   Token(<<" ", "o", "p", "t", " ">>, "option", 0),
   Token(<<"A", "L", "T">>, "option", 0),
   Token(<<"S", "h", "i", "f", "t">>, "shift", 0),
   Token(<<"c", "t", "r", "l">>, "ctrl", 0),
   Token(<<"C", "O", "N", "T", "R", "O", "L", " ">>, "ctrl", 0),
   Token(<<"U">>, "key", KEY_U),
   Token(<<" ", "q">>, "key", KEY_Q),
   Token(<<"z", "z">>, "unknown", 0),
   Token(<<" ">>, "unknown", 0)}

\* the token sequences the strings are made of
ChordTokenSeqs == UNION {[1..n -> SpeltTokens] : n \in 0..MaxTokens}

ChordArgs ==
  {[fn |-> "ExitKey::parse", tokens |-> ts, input |-> JoinTokens(ts)] :
     ts \in ChordTokenSeqs}

InitExitKey ==
  /\ InitSession
  /\ arg \in ChordArgs
  /\ ret = NoCall

\* ExitKey::parse(arg), as clap's value_parser and main() call it
ApplyExitKeyParse ==
  /\ arg.fn = "ExitKey::parse"
  /\ ret = NoCall
  /\ ret' = [fn |-> arg.fn, out |-> ExitKey_parse(arg.input)]
  /\ UNCHANGED <<pc, clockVars, holdVars, countdownVars, WARNING_SHOWN,
                 exitKeyVars, tapVars, terminateCalls, warningsShown, last,
                 lastEvent, assertion_id, buttonDown,
                 arg>>

NextExitKey == ApplyExitKeyParse

SpecExitKey == InitExitKey /\ [][NextExitKey]_vars

(***************************************************************************)
(* parse_duration applied to duration strings.                             *)
(***************************************************************************)
\* a component of a duration string as it is spelt, with the seconds it
\* stands for; kind: "unit" (digits and a unit letter), "bare" (digits
\* only, which belong at the end of the string), "nodigits" (a unit letter
\* alone) or "badchar" (a character that is no digit, unit or blank)
Part(text, secs, kind) == [text |-> text, secs |-> secs, kind |-> kind]

DurationParts ==
  {Part(<<"1", "h">>, BigFromInt(3600), "unit"),
   Part(<<"2", "H">>, BigFromInt(7200), "unit"),
   Part(<<"2", "4", "h">>, BigFromInt(86400), "unit"),
   Part(<<"2", "5", "h">>, BigFromInt(90000), "unit"),
   Part(<<"3", "0", "m">>, BigFromInt(1800), "unit"),
   Part(<<"1", "m">>, BigFromInt(60), "unit"),
   Part(<<" ", "9", "0", " ", "s">>, BigFromInt(90), "unit"),
   Part(<<"5", "9", "s">>, BigFromInt(59), "unit"),
   Part(<<"1", "s", " ">>, BigFromInt(1), "unit"),
   Part(<<"0", "m">>, <<>>, "unit"),
   Part(<<"3", "0">>, BigFromInt(1800), "bare"),
   Part(<<"h">>, <<>>, "nodigits"),
   Part(<<"3", "0", "x">>, <<>>, "badchar"),
   \* (2^60 + 1) hours: times 3600 it is 225 * 2^64 + 3600
   Part(<<"1", "1", "5", "2", "9", "2", "1", "5", "0", "4", "6", "0", "6",
          "8", "4", "6", "9", "7", "7", "h">>,
        <<3600, 0, 0, 0, 225>>, "unit"),
   \* 2^64 - 1 seconds
   Part(<<"1", "8", "4", "4", "6", "7", "4", "4", "0", "7", "3", "7", "0",
          "9", "5", "5", "1", "6", "1", "5", "s">>,
        <<65535, 65535, 65535, 65535>>, "unit"),
   \* 2^64 seconds
   Part(<<"1", "8", "4", "4", "6", "7", "4", "4", "0", "7", "3", "7", "0",
          "9", "5", "5", "1", "6", "1", "6", "s">>,
        <<0, 0, 0, 0, 1>>, "unit")}

\* sequences of components, digits without a unit only at the end
DurationPartSeqs ==
  {ps \in UNION {[1..n -> DurationParts] : n \in 0..MaxParts} :
     \A i \in 1..(Len(ps) - 1) : ps[i].kind # "bare"}

RECURSIVE JoinParts(_)
JoinParts(parts) ==
  IF parts = <<>> THEN <<>> ELSE Head(parts).text \o JoinParts(Tail(parts))

\* the build is made with overflow checks (dev profile) or without
\* (release profile)
DurationArgs ==
  {[fn |-> "parse_duration", parts |-> ps, input |-> JoinParts(ps),
    overflow_checks |-> oc] :
     ps \in DurationPartSeqs, oc \in BOOLEAN}

InitDuration ==
  /\ InitSession
  /\ arg \in DurationArgs
  /\ ret = NoCall

\* parse_duration(arg), as clap's value_parser calls it for --timer
ApplyParseDuration ==
  /\ arg.fn = "parse_duration"
  /\ ret = NoCall
  /\ ret' = [fn |-> arg.fn,
             out |-> parse_duration(arg.input, arg.overflow_checks)]
  /\ UNCHANGED <<pc, clockVars, holdVars, countdownVars, WARNING_SHOWN,
                 exitKeyVars, tapVars, terminateCalls, warningsShown, last,
                 lastEvent, assertion_id, buttonDown,
                 arg>>

NextDuration == ApplyParseDuration

SpecDuration == InitDuration /\ [][NextDuration]_vars

(***************************************************************************)
(* format_duration applied to the durations a countdown can have, and      *)
(* parse_duration applied to what it returns.                              *)
(***************************************************************************)
FormatArgs ==
  {[fn |-> "format_duration", total_secs |-> n] :
     n \in MIN_TIMER_SECONDS..MAX_TIMER_SECONDS}

InitRoundTrip ==
  /\ InitSession
  /\ arg \in FormatArgs
  /\ ret = NoCall

\* format_duration(arg)
ApplyFormatDuration ==
  /\ arg.fn = "format_duration"
  /\ ret = NoCall
  /\ ret' = [fn |-> "format_duration", out |-> format_duration(arg.total_secs)]
  /\ UNCHANGED <<pc, clockVars, holdVars, countdownVars, WARNING_SHOWN,
                 exitKeyVars, tapVars, terminateCalls, warningsShown, last,
                 lastEvent, assertion_id, buttonDown,
                 arg>>

\* parse_duration(the formatted string), in either build
ApplyParseFormatted ==
  /\ ret.fn = "format_duration"
  /\ \E overflow_checks \in BOOLEAN :
       ret' = [fn |-> "parse_duration", text |-> ret.out,
               out |-> parse_duration(ret.out, overflow_checks)]
  /\ UNCHANGED <<pc, clockVars, holdVars, countdownVars, WARNING_SHOWN,
                 exitKeyVars, tapVars, terminateCalls, warningsShown, last,
                 lastEvent, assertion_id, buttonDown,
                 arg>>

NextRoundTrip == ApplyFormatDuration \/ ApplyParseFormatted

SpecRoundTrip == InitRoundTrip /\ [][NextRoundTrip]_vars

(***************************************************************************)
(* calculate_hold_progress applied to elapsed times and hold durations.    *)
(***************************************************************************)
ProgressArgs ==
  {[fn |-> "calculate_hold_progress", elapsed_secs |-> e,
    hold_duration_secs |-> d] : e \in 0..MaxElapsed, d \in 1..MaxHold}

InitProgress ==
  /\ InitSession
  /\ arg \in ProgressArgs
  /\ ret = NoCall

\* calculate_hold_progress(arg), as draw_close_button calls it
ApplyHoldProgress ==
  /\ arg.fn = "calculate_hold_progress"
  /\ ret = NoCall
  /\ ret' = [fn |-> arg.fn,
             out |-> calculate_hold_progress(arg.elapsed_secs,
                                             arg.hold_duration_secs)]
  /\ UNCHANGED <<pc, clockVars, holdVars, countdownVars, WARNING_SHOWN,
                 exitKeyVars, tapVars, terminateCalls, warningsShown, last,
                 lastEvent, assertion_id, buttonDown,
                 arg>>

NextProgress == ApplyHoldProgress

SpecProgress == InitProgress /\ [][NextProgress]_vars

(***************************************************************************)
(* Startup from the configuration: main() given a command line, a          *)
(* configuration file and a build profile.                                 *)
(***************************************************************************)
\* chord strings as a command line or a config file may hold them: two
\* well-formed ones, a bare key, modifiers without a key, an unknown key,
\* two keys and the empty string
StartupChords ==
  {<<Token(<<"c", "m", "d">>, "cmd", 0), Token(<<" ", "q">>, "key", KEY_Q)>>,
   <<Token(<<"S", "h", "i", "f", "t">>, "shift", 0),
     Token(<<"c", "t", "r", "l">>, "ctrl", 0),
     Token(<<"U">>, "key", KEY_U)>>,
   <<Token(<<"U">>, "key", KEY_U)>>,
   <<Token(<<"c", "m", "d">>, "cmd", 0)>>,
   <<Token(<<"c", "m", "d">>, "cmd", 0), Token(<<"z", "z">>, "unknown", 0)>>,
   <<Token(<<"c", "m", "d">>, "cmd", 0), Token(<<"U">>, "key", KEY_U),
     Token(<<" ", "q">>, "key", KEY_Q)>>,
   <<>>}

\* duration strings as --timer may hold them: the two ends of the range,
\* one second and one hour outside it, a character that is no unit, and
\* (2^60 + 1) hours
StartupTimers ==
  {<<Part(<<"1", "m">>, BigFromInt(60), "unit")>>,
   <<Part(<<"2", "4", "h">>, BigFromInt(86400), "unit")>>,
   <<Part(<<"5", "9", "s">>, BigFromInt(59), "unit")>>,
   <<Part(<<"2", "5", "h">>, BigFromInt(90000), "unit")>>,
   <<Part(<<"3", "0", "x">>, <<>>, "badchar")>>,
   <<Part(<<"1", "1", "5", "2", "9", "2", "1", "5", "0", "4", "6", "0", "6",
           "8", "4", "6", "9", "7", "7", "h">>,
         <<3600, 0, 0, 0, 225>>, "unit")>>}

\* Option<T> of an argument: <<>> when it is not given, <<x>> when it is
OptionOf(S) == {<<>>} \cup {<<x>> : x \in S}

\* what main() is started with: --exit-key, --timer, the exit_key of
\* config.toml, and the build's overflow checks
StartupArgs ==
  [fn : {"main"}, cli_exit_key : OptionOf(StartupChords),
   cli_timer : OptionOf(StartupTimers),
   config_exit_key : OptionOf(StartupChords), overflow_checks : BOOLEAN]

InitStartup ==
  /\ InitSession
  /\ arg \in StartupArgs
  /\ ret = NoCall

\* the value parsers clap runs for the options that are given
cli_exit_key_parsed ==
  IF arg.cli_exit_key = <<>> THEN ParseOk(<<>>)
  ELSE LET out == ExitKey_parse(JoinTokens(arg.cli_exit_key[1]))
       IN IF out.ok THEN ParseOk(<<out.value>>) ELSE out
cli_timer_parsed ==
  IF arg.cli_timer = <<>> THEN ParseOk(<<>>)
  ELSE LET out == parse_duration(JoinParts(arg.cli_timer[1]),
                                 arg.overflow_checks)
       IN IF out.ok THEN ParseOk(<<out.value>>) ELSE out

\* main()'s first line, Args::parse(): a value parser's Err makes clap
\* print the error and exit, a panic ends the process with its message;
\* otherwise main() has args.exit_key and args.timer
MainArgsParse ==
  /\ pc = "set_exit_key"
  /\ arg.fn = "main"
  /\ ret = NoCall
  /\ \E results \in {<<cli_exit_key_parsed, cli_timer_parsed>>} :
       LET failed == {i \in 1..2 : ~results[i].ok}
       IN IF failed # {}
          THEN /\ \E i \in failed :
                    ret' = [fn |-> "main", exit_key |-> <<>>,
                            timer |-> <<>>, chosen |-> <<>>,
                            reported |-> <<results[i]>>]
               /\ pc' = "exited"
          ELSE /\ ret' = [fn |-> "main", exit_key |-> results[1].value,
                          timer |-> results[2].value, chosen |-> <<>>,
                          reported |-> <<>>]
               /\ pc' = pc
  /\ UNCHANGED <<clockVars, holdVars, countdownVars, WARNING_SHOWN,
                 exitKeyVars, tapVars, terminateCalls, warningsShown, last,
                 lastEvent, assertion_id, buttonDown,
                 arg>>

\* main(): the exit key is args.exit_key, else config.exit_key parsed (the
\* default, with a message, if that fails), else the default
config_exit_key_or_default ==
  IF ret.exit_key # <<>> THEN ParseOk(ret.exit_key[1])
  ELSE IF arg.config_exit_key # <<>>
  THEN LET out == ExitKey_parse(JoinTokens(arg.config_exit_key[1]))
       IN IF out.ok THEN out
          ELSE [ok |-> FALSE, value |-> DefaultExitKey, err |-> out.err]
  ELSE ParseOk(DefaultExitKey)

\* main(): let exit_key = ...; set_exit_key is then followed store by
\* store
MainExitKeyFromArgs ==
  /\ pc = "set_exit_key"
  /\ ret.fn = "main"
  /\ ret.chosen = <<>>
  /\ \E chosen \in {config_exit_key_or_default} :
       ret' = [ret EXCEPT !.chosen = <<chosen.value>>,
                          !.reported = IF chosen.ok THEN @
                                                    ELSE @ \o <<chosen>>]
  /\ pc' = "set_exit_key_1"
  /\ UNCHANGED <<clockVars, holdVars, countdownVars, WARNING_SHOWN,
                 exitKeyVars, tapVars, terminateCalls, warningsShown, last,
                 lastEvent, assertion_id, buttonDown, arg>>

\* main()'s position at each of set_exit_key's stores
ExitKeyPc ==
  <<"set_exit_key_1", "set_exit_key_2", "set_exit_key_3", "set_exit_key_4",
    "set_exit_key_5">>

\* the statics set_exit_key stores to, in the order of its stores
set_exit_key_stores_without_ctrl ==
  <<"EXIT_KEY_KEYCODE", "EXIT_KEY_REQUIRES_CMD", "EXIT_KEY_REQUIRES_OPTION",
    "EXIT_KEY_REQUIRES_SHIFT">>
set_exit_key_stores ==
  <<"EXIT_KEY_KEYCODE", "EXIT_KEY_REQUIRES_CMD", "EXIT_KEY_REQUIRES_OPTION",
    "EXIT_KEY_REQUIRES_SHIFT", "EXIT_KEY_REQUIRES_CTRL">>

\* the k-th store of set_exit_key(&exit_key); after the last, main() goes
\* on to the overlay window and the start of the tick
\* (start_close_button_timer)
SetExitKeyStore(k) ==
  /\ k <= Len(set_exit_key_stores)
  /\ pc = ExitKeyPc[k]
  /\ LET key == ret.chosen[1]
         static == set_exit_key_stores[k]
     IN /\ EXIT_KEY_KEYCODE' =
             IF static = "EXIT_KEY_KEYCODE" THEN key.keycode
                                            ELSE EXIT_KEY_KEYCODE
        /\ EXIT_KEY_REQUIRES_CMD' =
             IF static = "EXIT_KEY_REQUIRES_CMD" THEN key.requires_cmd
                                                 ELSE EXIT_KEY_REQUIRES_CMD
        /\ EXIT_KEY_REQUIRES_OPTION' =
             IF static = "EXIT_KEY_REQUIRES_OPTION"
             THEN key.requires_option ELSE EXIT_KEY_REQUIRES_OPTION
        /\ EXIT_KEY_REQUIRES_SHIFT' =
             IF static = "EXIT_KEY_REQUIRES_SHIFT" THEN key.requires_shift
                                                   ELSE EXIT_KEY_REQUIRES_SHIFT
        /\ EXIT_KEY_REQUIRES_CTRL' =
             IF static = "EXIT_KEY_REQUIRES_CTRL" THEN key.requires_ctrl
                                                  ELSE EXIT_KEY_REQUIRES_CTRL
  /\ pc' = IF k < Len(set_exit_key_stores) THEN ExitKeyPc[k + 1]
                                           ELSE "auto_exit"
  /\ UNCHANGED <<clockVars, holdVars, countdownVars, WARNING_SHOWN, tapVars,
                 terminateCalls, warningsShown, last, lastEvent,
                 assertion_id, buttonDown, callVars>>

\* main(): if let Some(duration_secs) = args.timer; init_auto_exit_timer
\* is then followed store by store
MainTimerFromArgs ==
  /\ pc = "auto_exit"
  /\ ret.fn = "main"
  /\ pc' = IF ret.timer # <<>> THEN "init_auto_exit_timer_1"
                               ELSE "prevent_sleep"
  /\ UNCHANGED <<clockVars, holdVars, countdownVars, WARNING_SHOWN,
                 exitKeyVars, tapVars, terminateCalls, warningsShown, last,
                 lastEvent, assertion_id, buttonDown,
                 callVars>>

\* main()'s position at each of init_auto_exit_timer's stores
StorePc ==
  <<"init_auto_exit_timer_1", "init_auto_exit_timer_2",
    "init_auto_exit_timer_3">>

\* the statics init_auto_exit_timer stores to, in the order of its stores
init_auto_exit_stores_enabled_first ==
  <<"AUTO_EXIT_ENABLED", "AUTO_EXIT_START_TIME", "AUTO_EXIT_DURATION_SECS">>
init_auto_exit_stores ==
  <<"AUTO_EXIT_START_TIME", "AUTO_EXIT_DURATION_SECS", "AUTO_EXIT_ENABLED">>

\* the k-th store of init_auto_exit_timer(args.timer)
InitAutoExitStore(k) ==
  /\ pc = StorePc[k]
  /\ LET now == wall
         duration_secs == ret.timer[1]
         static == init_auto_exit_stores[k]
     IN /\ AUTO_EXIT_START_TIME' =
             IF static = "AUTO_EXIT_START_TIME" THEN now
                                                ELSE AUTO_EXIT_START_TIME
        /\ AUTO_EXIT_DURATION_SECS' =
             IF static = "AUTO_EXIT_DURATION_SECS"
             THEN duration_secs ELSE AUTO_EXIT_DURATION_SECS
        /\ AUTO_EXIT_ENABLED' =
             IF static = "AUTO_EXIT_ENABLED" THEN TRUE ELSE AUTO_EXIT_ENABLED
  /\ pc' = IF k < Len(StorePc) THEN StorePc[k + 1] ELSE "prevent_sleep"
  /\ UNCHANGED <<clockVars, holdVars, WARNING_SHOWN, exitKeyVars, tapVars,
                 terminateCalls, warningsShown, last, lastEvent,
                 assertion_id, buttonDown, callVars>>

NextStartup ==
  \/ MainArgsParse
  \/ MainExitKeyFromArgs
  \/ \E k \in 1..Len(ExitKeyPc) : SetExitKeyStore(k)
  \/ MainTimerFromArgs
  \/ \E k \in 1..Len(StorePc) : InitAutoExitStore(k)
  \/ MainPreventSleep
  \/ SetupEventTapOk
  \/ SetupEventTapFail
  \/ TimerCallback
  \/ \E e \in SessionEvents : event_tap_callback(e, FALSE)

SpecStartup == InitStartup /\ [][NextStartup]_vars

(***************************************************************************)
(* The hold gesture: every sequence of pointer events on the close button, *)
(* with the button's state followed, and the ticks.                        *)
(***************************************************************************)
\* the button goes down over the close button: mouseDown:
PointerDown == mouse_down /\ buttonDown' = TRUE

\* the button is released: mouseUp:
PointerUp == mouse_up /\ buttonDown' = FALSE

\* the pointer moves to a place inside or outside the button's bounds:
\* mouseDragged:
PointerMoved(is_inside) == mouse_dragged(is_inside) /\ UNCHANGED buttonDown

NextHold ==
  \/ MainSetExitKey(SessionExitKeys)
  \/ MainNoTimer
  \/ MainPreventSleep
  \/ SetupEventTapOk
  \/ Elapse
  \/ TimerCallback
  \/ PointerDown
  \/ PointerUp
  \/ \E is_inside \in BOOLEAN : PointerMoved(is_inside)

SpecHold == Init /\ [][NextHold]_vars

(***************************************************************************)
(* The countdown to its end: the session with a wall clock that is never   *)
(* set back, time that keeps passing and ticks that keep coming.           *)
(***************************************************************************)
\* the wall clock moves forwards: time passes, or the clock is set ahead
ClockForward == ClockChange /\ wall' > wall

\* the key events of the session
LiveEvents == {e \in SessionEvents : e.type \in EventMask}

NextLive ==
  \/ MainSetExitKey(SessionExitKeys)
  \/ MainAutoExitTimer
  \/ MainPreventSleep
  \/ SetupEventTapOk
  \/ SetupEventTapFail
  \/ Elapse
  \/ ClockForward
  \/ TimerCallback
  \/ mouse_down /\ UNCHANGED buttonDown
  \/ mouse_up /\ UNCHANGED buttonDown
  \/ \E is_inside \in BOOLEAN :
       mouse_dragged(is_inside) /\ UNCHANGED buttonDown
  \/ \E e \in LiveEvents : event_tap_callback(e, FALSE)

\* main() runs on to app.run(); the run loop's repeating timer
\* (start_close_button_timer) keeps calling timer_callback while the
\* process runs; time does not stand still
FairLive ==
  /\ WF_vars(MainPreventSleep)
  /\ WF_vars(SetupEventTapOk \/ SetupEventTapFail)
  /\ WF_vars(TimerCallback)
  /\ WF_vars(ClockForward)

SpecLive == Init /\ [][NextLive]_vars /\ FairLive

(***************************************************************************)
(* Properties.                                                             *)
(***************************************************************************)
NoProgress == <<0, HOLD_DURATION_SECS>>

\* the time the current press has lasted, if there is one
HeldFor == mono - MOUSE_DOWN_TIME[1]

\* C1: termination is idempotent across the tick and the event tap: once
\* one of them has called terminate, no later tick or key event calls it
\* again (it is called exactly once per session) and none emits a further
\* message or warning.
C1_TerminateOnce ==
  [][(/\ terminateCalls >= 1
      /\ \/ TimerCallback
         \/ \E e \in SessionEvents : event_tap_callback(e, FALSE)) =>
       /\ terminateCalls' = terminateCalls
       /\ warningsShown' = warningsShown
       /\ last'.reason = None
       /\ ~last'.warned]_vars

\* C2: a tick reports hold completion, and terminates for HoldCompleted,
\* if and only if a press start is recorded, the pointer is inside and
\* now - start >= 3 seconds (the boundary included).
C2_HoldCompleteIff ==
  [][TimerCallback =>
       /\ (last'.reason = "HoldCompleted")
            <=> (/\ MOUSE_DOWN_TIME # NoInstant
                 /\ IS_MOUSE_INSIDE
                 /\ HeldFor >= HOLD_DURATION_SECS)
       /\ last'.reason = "HoldCompleted" =>
            terminateCalls' = Min(terminateCalls + 1, MaxCount)]_vars

\* a tick completed the hold at exactly 3 seconds
C2_Witness ==
  /\ last = Obs("timer", "HoldCompleted", FALSE, None)
  /\ MOUSE_DOWN_TIME # NoInstant
  /\ HeldFor = HOLD_DURATION_SECS

\* C3: leaving the button cancels the hold with no partial credit: a drag
\* that flips inside -> outside clears the press start (progress 0), a drag
\* that flips outside -> inside records a fresh start at the current time
\* (progress 0 again), and a tick completes the hold only when 3 seconds
\* have passed since the start recorded last.
C3_NoPartialCredit ==
  [][/\ (mouse_dragged(FALSE) /\ IS_MOUSE_INSIDE) =>
          (MOUSE_DOWN_TIME' = NoInstant /\ hold_progress' = NoProgress
             /\ ~should_exit_from_button')
     /\ (mouse_dragged(TRUE) /\ ~IS_MOUSE_INSIDE) =>
          (MOUSE_DOWN_TIME' = Some(mono) /\ hold_progress' = NoProgress
             /\ ~should_exit_from_button')
     /\ (TimerCallback /\ last'.reason = "HoldCompleted") =>
          (MOUSE_DOWN_TIME # NoInstant
             /\ HeldFor >= HOLD_DURATION_SECS)]_vars

\* a drag has brought the pointer into the button, later than the
\* session's first second, and the press starts afresh at that time
C3_Witness ==
  /\ last = Obs("mouse_dragged", None, FALSE, "enter")
  /\ mono >= 1
  /\ MOUSE_DOWN_TIME = Some(mono)
  /\ hold_progress = NoProgress

\* C4: pointer_up leaves the gesture idle from every state: no start time,
\* progress 0; and with no start time recorded no tick reports hold
\* completion, a start time appearing again only through pointer_down or a
\* re-entry.
C4_PointerUpIdle ==
  [][/\ mouse_up =>
          (MOUSE_DOWN_TIME' = NoInstant /\ hold_progress' = NoProgress
             /\ ~should_exit_from_button')
     /\ (TimerCallback /\ MOUSE_DOWN_TIME = NoInstant) =>
          last'.reason # "HoldCompleted"
     /\ (MOUSE_DOWN_TIME = NoInstant /\ MOUSE_DOWN_TIME' # NoInstant) =>
          \/ last'.handler = "mouse_down"
          \/ last' = Obs("mouse_dragged", None, FALSE, "enter")]_vars

\* a release discarded a press that had lasted at least a second
C4_Witness ==
  /\ last = Obs("mouse_up", None, FALSE, "discard")
  /\ MOUSE_DOWN_TIME = NoInstant
  /\ hold_progress = NoProgress
  /\ mono >= 1

\* C5: on a tick where the hold is complete and the armed countdown is
\* expired, the decision is Terminate(HoldCompleted) and the countdown is
\* not evaluated: no warning, no timer-expired message, warning_shown
\* unchanged.
C5_HoldBeforeCountdown ==
  [][(/\ TimerCallback
      /\ should_exit_from_button
      /\ AUTO_EXIT_ENABLED
      /\ get_remaining_seconds = 0) =>
       /\ last' = Obs("timer", "HoldCompleted", FALSE, None)
       /\ WARNING_SHOWN' = WARNING_SHOWN
       /\ warningsShown' = warningsShown]_vars

\* a tick terminated for the hold although the countdown had expired and
\* its warning was still due
C5_Witness ==
  /\ last = Obs("timer", "HoldCompleted", FALSE, None)
  /\ should_exit_from_button
  /\ AUTO_EXIT_ENABLED
  /\ get_remaining_seconds = 0
  /\ ~WARNING_SHOWN

\* C6: a tick terminates for TimerExpired if and only if the hold is not
\* complete on it, a countdown is armed and remaining(now) = 0; with no
\* countdown armed a tick produces neither TimerExpired nor a warning.
C6_TimerExpiredIff ==
  [][TimerCallback =>
       /\ (last'.reason = "TimerExpired")
            <=> (/\ ~should_exit_from_button
                 /\ AUTO_EXIT_ENABLED
                 /\ get_remaining_seconds = 0)
       /\ last'.reason = "TimerExpired" =>
            terminateCalls' = Min(terminateCalls + 1, MaxCount)
       /\ ~AUTO_EXIT_ENABLED =>
            (last'.reason # "TimerExpired" /\ ~last'.warned
               /\ ~WARNING_SHOWN')]_vars

\* a tick terminated for the countdown in the very second it ran out
C6_Witness ==
  /\ last.handler = "timer"
  /\ last.reason = "TimerExpired"
  /\ wall = AUTO_EXIT_START_TIME + AUTO_EXIT_DURATION_SECS

\* C7: the countdown warning fires exactly once per session: it is emitted
\* on the first tick that evaluates the countdown with remaining <= 60,
\* which takes warning_shown from false to true; no later tick emits it,
\* whatever the clock does, and warning_shown never reverts.
C7_WarningOnce ==
  /\ [][WARNING_SHOWN => WARNING_SHOWN']_vars
  /\ [][warningsShown' # warningsShown =>
          (~WARNING_SHOWN /\ WARNING_SHOWN' /\ warningsShown = 0)]_vars
  /\ [][TimerCallback =>
          /\ last'.warned
               <=> (/\ ~should_exit_from_button
                    /\ AUTO_EXIT_ENABLED
                    /\ get_remaining_seconds <= WARNING_SECONDS
                    /\ ~WARNING_SHOWN)
          /\ last'.warned <=> warningsShown' = warningsShown + 1
          /\ last'.warned <=> (~WARNING_SHOWN /\ WARNING_SHOWN')]_vars
  /\ [](warningsShown <= 1)

\* after the warning, a later tick sees remaining = 60 again and is silent
C7_Witness ==
  /\ last = Obs("timer", None, FALSE, None)
  /\ WARNING_SHOWN
  /\ warningsShown = 1
  /\ get_remaining_seconds = WARNING_SECONDS

\* max(0, duration - max(0, now - armed_at))
RemainingSpec ==
  LET elapsed == IF wall > AUTO_EXIT_START_TIME
                 THEN wall - AUTO_EXIT_START_TIME ELSE 0
  IN IF AUTO_EXIT_DURATION_SECS > elapsed
     THEN AUTO_EXIT_DURATION_SECS - elapsed ELSE 0

\* C8: for an armed countdown and every clock value, remaining(now) is
\* max(0, duration - (now - armed_at)) with now - armed_at saturating at 0:
\* it lies in [0, duration], under backwards clock skew and past the
\* deadline too.
C8_RemainingSaturates ==
  AUTO_EXIT_ENABLED =>
    /\ get_remaining_seconds = RemainingSpec
    /\ get_remaining_seconds >= 0
    /\ get_remaining_seconds <= AUTO_EXIT_DURATION_SECS

\* a tick evaluated the countdown with the clock set back before the
\* arming time
C8_Witness ==
  /\ AUTO_EXIT_ENABLED
  /\ last.handler = "timer"
  /\ wall < AUTO_EXIT_START_TIME
  /\ get_remaining_seconds = AUTO_EXIT_DURATION_SECS

\* the event's modifiers are exactly the chord's
ExactModifiers(flags) ==
  /\ EXIT_KEY_REQUIRES_CMD <=> "cmd" \in flags
  /\ EXIT_KEY_REQUIRES_OPTION <=> "option" \in flags
  /\ EXIT_KEY_REQUIRES_SHIFT <=> "shift" \in flags
  /\ EXIT_KEY_REQUIRES_CTRL <=> "ctrl" \in flags

\* C9: a key event matches the configured chord if and only if its keycode
\* is the chord's and it carries each of cmd, option, shift and ctrl
\* exactly when the chord requires it; other flag bits do not matter.
C9_ChordExact ==
  /\ \A e \in AllKeyEvents :
       /\ check_exit_key(e.keycode, e.flags)
            <=> (e.keycode = EXIT_KEY_KEYCODE /\ ExactModifiers(e.flags))
       /\ check_exit_key(e.keycode, e.flags)
            = check_exit_key(e.keycode, e.flags \ OtherFlags)
  /\ lastEvent.type = "KeyDown" =>
       ((last.reason = "ChordMatched")
          <=> (/\ lastEvent.keycode = EXIT_KEY_KEYCODE
               /\ ExactModifiers(lastEvent.flags)))

\* a key-press matched a chord although it carried caps lock as well
C9_Witness ==
  /\ lastEvent.type = "KeyDown"
  /\ last.reason = "ChordMatched"
  /\ "capslock" \in lastEvent.flags
  /\ ExactModifiers(lastEvent.flags)

\* C10: a key-press matching the chord makes the callback call terminate
\* for ChordMatched and pass the event through; a key-release or a
\* modifier change never makes it call terminate, chord or not.
C10_ChordTerminates ==
  [][lastEvent'.type \in KeyEventTypes =>
       /\ (/\ lastEvent'.type = "KeyDown"
           /\ check_exit_key(lastEvent'.keycode, lastEvent'.flags)) =>
            /\ last' = Obs("event_tap", "ChordMatched", FALSE, "pass")
            /\ terminateCalls' = Min(terminateCalls + 1, MaxCount)
       /\ lastEvent'.type # "KeyDown" =>
            /\ last'.reason = None
            /\ terminateCalls' = terminateCalls
            /\ pc' = pc]_vars

\* a matching key-press terminated the session and was passed through
C10_Witness ==
  /\ lastEvent.type = "KeyDown"
  /\ check_exit_key(lastEvent.keycode, lastEvent.flags)
  /\ last = Obs("event_tap", "ChordMatched", FALSE, "pass")
  /\ terminateCalls = 1

\* the callback is to suppress the event: a keyboard event that is no
\* revocation signal and no key-press matching the chord
ToSuppress(e) ==
  /\ e.type \in KeyEventTypes
  /\ e.type \notin TapDisabledTypes
  /\ ~(/\ e.type = "KeyDown"
       /\ e.keycode = EXIT_KEY_KEYCODE
       /\ ExactModifiers(e.flags))

\* C11: the callback suppresses an event if and only if it is a keyboard
\* event (key-down, key-up, flags-changed) that is neither a revocation
\* signal nor a key-press matching the chord; every pointer event and every
\* other event is passed through unchanged.
C11_SuppressIff ==
  /\ \A e \in AllEvents :
       (event_tap_returns(e.type, e.keycode, e.flags) = "suppress")
         <=> ToSuppress(e)
  /\ lastEvent.type # None =>
       /\ last.effect \in {"pass", "suppress"}
       /\ (last.effect = "suppress") <=>
            (last.handler = "event_tap" /\ ToSuppress(lastEvent))
       /\ lastEvent.type \notin KeyEventTypes => last.effect = "pass"

\* the release of the chord's own key, chord modifiers held, was suppressed
C11_Witness ==
  /\ lastEvent.type = "KeyUp"
  /\ lastEvent.keycode = EXIT_KEY_KEYCODE
  /\ ExactModifiers(lastEvent.flags)
  /\ last = Obs("event_tap", None, FALSE, "suppress")

\* C12: the tap heals itself: every callback given a revocation event
\* (disabled by timeout or by user input), however many there are in a
\* session, re-enables the tap within that invocation, passes the event
\* through and neither checks the chord nor suppresses; an installed tap is
\* disabled only while its notification is still on its way to the callback.
C12_TapSelfHeals ==
  /\ [][(\E e \in SessionEvents :
           e.type \in TapDisabledTypes /\ event_tap_callback(e, FALSE)) =>
          /\ tapEnabled'
          /\ tapNotice' = None
          /\ last' = Obs("event_tap", None, FALSE, "pass")
          /\ terminateCalls' = terminateCalls
          /\ pc' = pc]_vars
  /\ [](EVENT_TAP # "null" /\ ~tapEnabled => tapNotice \in TapDisabledTypes)
  /\ []((pc = "run" /\ tapNotice \in TapDisabledTypes) =>
          ENABLED (\E e \in SessionEvents :
                     e.type = tapNotice /\ event_tap_callback(e, FALSE)))

\* the callback has answered a revocation after an earlier termination
\* request: the tap is enabled again and nothing is pending
C12_Witness ==
  /\ last = Obs("event_tap", None, FALSE, "pass")
  /\ EVENT_TAP = "tap"
  /\ tapEnabled
  /\ tapNotice = None
  /\ terminateCalls = 1

\* C13: when the tap cannot be created the session is not aborted: main()
\* goes on to the run loop with the power assertion and the rest of the
\* state as they were; there the tick and the pointer handlers run, a
\* completed hold and an expired countdown still terminate, and the
\* callback is given no event: no key event is suppressed and there is no
\* ChordMatched termination.
C13_NoTapDegrades ==
  /\ [][SetupEventTapFail =>
          /\ pc' = "run"
          /\ EVENT_TAP' = "null"
          /\ assertion_id' = assertion_id
          /\ UNCHANGED <<holdVars, countdownVars, exitKeyVars,
                         terminateCalls>>]_vars
  /\ []((pc = "run" /\ EVENT_TAP = "null") =>
          /\ ENABLED TimerCallback
          /\ ENABLED mouse_down
          /\ \A e \in AllEvents : ~Delivered(e))
  /\ [](EVENT_TAP = "null" =>
          /\ last.handler # "event_tap"
          /\ last.reason # "ChordMatched"
          /\ last.effect # "suppress")
  /\ [][(EVENT_TAP = "null" /\ TimerCallback) =>
          /\ should_exit_from_button => last'.reason = "HoldCompleted"
          /\ (/\ ~should_exit_from_button
              /\ AUTO_EXIT_ENABLED
              /\ get_remaining_seconds = 0) => last'.reason = "TimerExpired"
          /\ last'.reason # None =>
               terminateCalls' = Min(terminateCalls + 1, MaxCount)]_vars

\* a session without a tap, its power assertion held, has been terminated
\* by the countdown
C13_Witness ==
  /\ EVENT_TAP = "null"
  /\ pc = "run"
  /\ assertion_id # NoInstant
  /\ last.handler = "timer"
  /\ last.reason = "TimerExpired"
  /\ terminateCalls = 1

\* ExitKey::parse accepts no --exit-key string that is a key alone
BareKeysRejected ==
  \A s \in PlainChords :
    ExitKey_parse(s).ok => \E i \in 1..Len(s) : s[i] = "+"

\* C14: every chord the callback can match against requires at least one
\* modifier: ExitKey::parse rejects a bare key, the default requires cmd
\* and option, and the stored chord is set from these only; so a key-press
\* carrying none of cmd, option, shift, ctrl never matches the chord and
\* never terminates the session.
C14_ChordHasModifier ==
  /\ \/ EXIT_KEY_REQUIRES_CMD
     \/ EXIT_KEY_REQUIRES_OPTION
     \/ EXIT_KEY_REQUIRES_SHIFT
     \/ EXIT_KEY_REQUIRES_CTRL
  /\ DefaultExitKey.requires_cmd /\ DefaultExitKey.requires_option
  /\ BareKeysRejected
  /\ \A e \in AllKeyEvents :
       e.flags \cap Modifiers = {} => ~check_exit_key(e.keycode, e.flags)
  /\ (lastEvent.type # None /\ lastEvent.flags \cap Modifiers = {}) =>
       last.reason = None

\* with a chord from --exit-key on the chord's key, pressed with caps lock
\* alone, was suppressed and terminated nothing
C14_Witness ==
  /\ EXIT_KEY_KEYCODE = KEY_Q
  /\ lastEvent.type = "KeyDown"
  /\ lastEvent.keycode = EXIT_KEY_KEYCODE
  /\ lastEvent.flags = {"capslock"}
  /\ last = Obs("event_tap", None, FALSE, "suppress")
  /\ terminateCalls = 0

\* the modifiers a token sequence names
ModifiersNamed(tokens) ==
  {tokens[i].means : i \in 1..Len(tokens)} \cap Modifiers

\* its tokens that are no modifier names
KeyTokens(tokens) == SelectSeq(tokens, LAMBDA t : t.means \notin Modifiers)

\* the string is blank: empty or whitespace only
Blank(input) == \A i \in 1..Len(input) : is_whitespace(input[i])

\* C15: ExitKey::parse returns an error for an empty or all-whitespace
\* input, for modifiers without a key token, for more than one non-modifier
\* token, for a key name the table lacks and for a key without modifiers;
\* the five messages are pairwise distinct, and an unmapped key name is
\* never replaced by a default keycode.
C15_ParseErrors ==
  ret.fn = "ExitKey::parse" =>
    LET tokens == arg.tokens
        keys == KeyTokens(tokens)
        out == ret.out
    IN /\ out.ok \in BOOLEAN
       /\ out.ok <=> out.err = None
       /\ Blank(arg.input) => out.err = ERR_EMPTY
       /\ (Len(tokens) >= 1 /\ Len(keys) = 0) => out.err = ERR_NO_KEY
       /\ Len(keys) > 1 => out.err = ERR_MULTIPLE_KEYS
       /\ (Len(keys) = 1 /\ keys[1].means = "unknown") => ~out.ok
       /\ (/\ Len(keys) = 1
           /\ keys[1].means = "unknown"
           /\ ~Blank(arg.input)) => out.err = ERR_UNKNOWN_KEY
       /\ (/\ Len(keys) = 1
           /\ keys[1].means = "key"
           /\ ModifiersNamed(tokens) = {}) => out.err = ERR_NO_MODIFIER
       /\ Cardinality({ERR_EMPTY, ERR_NO_KEY, ERR_MULTIPLE_KEYS,
                       ERR_UNKNOWN_KEY, ERR_NO_MODIFIER}) = 5
       /\ out.ok =>
            /\ Len(keys) = 1
            /\ keys[1].means = "key"
            /\ out.value.keycode = keys[1].keycode

\* two modifiers and a key name the table lacks: the unknown-key error
C15_Witness ==
  /\ ret.fn = "ExitKey::parse"
  /\ Len(arg.tokens) = MaxTokens
  /\ Cardinality(ModifiersNamed(arg.tokens)) = 2
  /\ KeyTokens(arg.tokens) = <<Token(<<"z", "z">>, "unknown", 0)>>
  /\ ret.out = ParseErr(ERR_UNKNOWN_KEY)

\* the string names exactly one key of the table and a modifier
Accepted(tokens) ==
  /\ Len(KeyTokens(tokens)) = 1
  /\ KeyTokens(tokens)[1].means = "key"
  /\ ModifiersNamed(tokens) # {}

\* the same chord in its plain spelling: lower case, no blanks, one name
\* for each modifier, in the order cmd, option, shift, ctrl, key
PlainSpelling(tokens) ==
  JoinTokens(InOrder({p \in PlainTokens :
                        \/ p.means \in ModifiersNamed(tokens)
                        \/ /\ p.means = "key"
                           /\ p.keycode = KeyTokens(tokens)[1].keycode},
                     <<"cmd", "option", "shift", "ctrl", "key">>))

\* C16: for every chord string ExitKey::parse accepts, the result requires
\* exactly the modifiers the string names and has the keycode of its one
\* non-modifier token; letter case, blanks around tokens, the order of the
\* tokens and the synonym used for a modifier make no difference.
C16_ParseExact ==
  ret.fn = "ExitKey::parse" =>
    LET tokens == arg.tokens
        out == ret.out
    IN /\ out.ok <=> Accepted(tokens)
       /\ out.ok =>
            /\ out.value =
                 [keycode |-> KeyTokens(tokens)[1].keycode,
                  requires_cmd |-> "cmd" \in ModifiersNamed(tokens),
                  requires_option |-> "option" \in ModifiersNamed(tokens),
                  requires_shift |-> "shift" \in ModifiersNamed(tokens),
                  requires_ctrl |-> "ctrl" \in ModifiersNamed(tokens)]
            /\ out = ExitKey_parse(PlainSpelling(tokens))

\* " q+ALT+Command" was accepted: key first, blanks, upper case, synonyms
C16_Witness ==
  /\ ret.fn = "ExitKey::parse"
  /\ arg.input = <<" ", "q", "+", "A", "L", "T", "+",
                   "C", "o", "m", "m", "a", "n", "d">>
  /\ ret.out.ok
  /\ ret.out.value =
       [keycode |-> KEY_Q, requires_cmd |-> TRUE, requires_option |-> TRUE,
        requires_shift |-> FALSE, requires_ctrl |-> FALSE]

\* the sum of the components, in seconds, as a natural number
RECURSIVE TrueTotal(_)
TrueTotal(parts) ==
  IF parts = <<>> THEN <<>>
  ELSE BigAdd(Head(parts).secs, TrueTotal(Tail(parts)))

\* 60 <= total <= 86400
InTimerRange(total) ==
  /\ ~BigLess(total, BigFromInt(MIN_TIMER_SECONDS))
  /\ ~BigLess(BigFromInt(MAX_TIMER_SECONDS), total)

\* some component is of the kind
HasKind(parts, kind) == \E i \in 1..Len(parts) : parts[i].kind = kind

\* parse_duration returned Ok(n)
ReturnedOk(out) == out.ok

\* C17: parse_duration returns Ok(n) only when the true total of the
\* components is n and 60 <= n <= 86400, also for numerals so large that
\* the multiplication by 3600 or 60 or the summation exceeds 64 bits; it
\* accepts no input whose total is below 60 or above 86400, no empty string
\* and no string with a character that is no digit, blank or unit.
C17_DurationRange ==
  ret.fn = "parse_duration" =>
    LET total == TrueTotal(arg.parts)
    IN /\ ReturnedOk(ret.out) =>
            /\ InTimerRange(total)
            /\ BigFromInt(ret.out.value) = total
       /\ ~InTimerRange(total) => ~ReturnedOk(ret.out)
       /\ Blank(arg.input) => ~ReturnedOk(ret.out)
       /\ HasKind(arg.parts, "badchar") => ~ReturnedOk(ret.out)

\* parse_duration on the examples: "1h30m", "1m30s", "30", " 1H 30M "
DurationExamples ==
  /\ parse_duration(<<"1", "h", "3", "0", "m">>, TRUE) = ParseOk(5400)
  /\ parse_duration(<<"3", "0", "m", "1", "h">>, TRUE) = ParseOk(5400)
  /\ parse_duration(<<"1", "m", "3", "0", "s">>, TRUE) = ParseOk(90)
  /\ parse_duration(<<"3", "0">>, TRUE) = ParseOk(1800)
  /\ parse_duration(<<" ", "1", "H", " ", "3", "0", "M", " ">>, TRUE)
       = ParseOk(5400)

\* C18: for every duration string it accepts, parse_duration returns the
\* sum of hours * 3600 + minutes * 60 + seconds over the components, a
\* trailing number without a unit counting as minutes, letter case and
\* blanks ignored, the components in any order; a unit letter without
\* digits before it is an error.
C18_DurationSum ==
  /\ DurationExamples
  /\ ret.fn = "parse_duration" =>
       /\ ReturnedOk(ret.out) =>
            BigFromInt(ret.out.value) = TrueTotal(arg.parts)
       /\ HasKind(arg.parts, "nodigits") => ~ReturnedOk(ret.out)

\* format_duration on the examples: 5400, 90, 86400
FormatExamples ==
  /\ format_duration(5400)
       = <<"1", "h", " ", "3", "0", "m", " ", "0", "0", "s">>
  /\ format_duration(90) = <<"1", "m", " ", "3", "0", "s">>
  /\ format_duration(86400)
       = <<"2", "4", "h", " ", "0", "0", "m", " ", "0", "0", "s">>

\* C19: formatting and parsing round-trip: for every n with
\* 60 <= n <= 86400, parse_duration(format_duration(n)) = Ok(n); so the
\* canonical string of a valid duration parses back to the same number of
\* seconds ("1h30m" -> 5400 -> "1h 30m 00s" -> 5400).
C19_RoundTrip ==
  /\ FormatExamples
  /\ (arg.fn = "format_duration" /\ ret.fn = "parse_duration") =>
       /\ ret.text = format_duration(arg.total_secs)
       /\ ret.out = ParseOk(arg.total_secs)

\* 5400 seconds went to "1h 30m 00s" and back
C19_Witness ==
  /\ arg.fn = "format_duration"
  /\ arg.total_secs = 5400
  /\ ret.fn = "parse_duration"
  /\ ret.text = <<"1", "h", " ", "3", "0", "m", " ", "0", "0", "s">>
  /\ ret.out = ParseOk(5400)

\* fractions <<numerator, denominator>> with positive denominators
FracEq(p, q) == p[1] * q[2] = q[1] * p[2]
FracLeq(p, q) == p[1] * q[2] <= q[1] * p[2]
FracOne == <<1, 1>>

\* C20: for elapsed e >= 0 and duration d > 0 the hold progress is
\* min(1, e / d): 0 at e = 0, non-decreasing in e, never above 1, and 1
\* exactly when e >= d, that is exactly when is_hold_complete(e, d).
C20_ProgressClamped ==
  ret.fn = "calculate_hold_progress" =>
    LET e == arg.elapsed_secs
        d == arg.hold_duration_secs
        progress == ret.out
    IN /\ progress[2] > 0
       /\ IF e < d THEN FracEq(progress, <<e, d>>)
                   ELSE FracEq(progress, FracOne)
       /\ FracLeq(<<0, 1>>, progress) /\ FracLeq(progress, FracOne)
       /\ e = 0 => FracEq(progress, <<0, 1>>)
       /\ FracEq(progress, FracOne) <=> e >= d
       /\ FracEq(progress, FracOne) <=> is_hold_complete(e, d)
       /\ \A e2 \in 0..MaxElapsed :
            e <= e2 => FracLeq(progress, calculate_hold_progress(e2, d))

\* past the hold duration the progress is 1, not e / d
C20_Witness ==
  /\ ret.fn = "calculate_hold_progress"
  /\ arg.hold_duration_secs = HOLD_DURATION_SECS
  /\ arg.elapsed_secs > HOLD_DURATION_SECS
  /\ ret.out = <<HOLD_DURATION_SECS, HOLD_DURATION_SECS>>

\* the chord string the exit key is configured from: --exit-key's when it
\* is given, else config.toml's
ConfiguredChord ==
  IF arg.cli_exit_key # <<>> THEN arg.cli_exit_key ELSE arg.config_exit_key

\* it does not name one key of the table and at least one modifier
ChordMalformed == ConfiguredChord # <<>> /\ ~Accepted(ConfiguredChord[1])

\* --timer's string has a character that is no digit, unit or blank, or
\* its total is below 60 or above 86400 seconds
TimerOutOfRange ==
  /\ arg.cli_timer # <<>>
  /\ \/ HasKind(arg.cli_timer[1], "badchar")
     \/ ~InTimerRange(TrueTotal(arg.cli_timer[1]))

\* main() has gone past set_exit_key (the overlay window is shown and the
\* tick is scheduled right after it), a tap is installed, or a handler has
\* run
SessionStarted ==
  \/ pc \notin {"set_exit_key", "exited"}
                \cup {ExitKeyPc[k] : k \in 1..Len(ExitKeyPc)}
  \/ EVENT_TAP # "null"
  \/ last # NoObs

\* C21: whenever the configured exit-chord string is malformed or the timer
\* duration is out of range, from the command line or from the config file,
\* no session is started (no overlay, no tick, no tap) and the process ends
\* with the error reported.
C21_ConfigErrorsFatal ==
  (arg.fn = "main" /\ (ChordMalformed \/ TimerOutOfRange)) =>
    /\ ~SessionStarted
    /\ pc = "exited" => ret.reported # <<>>

\* C22: the one-shot warning is emitted only on a tick whose decision is
\* Continue: a tick that finds the armed countdown expired (remaining = 0)
\* terminates for TimerExpired and emits no warning, also when it is the
\* first tick to see remaining <= 60.
C22_WarningOnlyOnContinue ==
  [][TimerCallback =>
       /\ last'.warned => last'.reason = None
       /\ (/\ ~should_exit_from_button
           /\ AUTO_EXIT_ENABLED
           /\ get_remaining_seconds = 0) =>
            (/\ last'.reason = "TimerExpired"
             /\ ~last'.warned
             /\ warningsShown' = warningsShown)]_vars

\* a pointer handler runs
PointerHandler ==
  mouse_down \/ mouse_up \/ \E is_inside \in BOOLEAN : mouse_dragged(is_inside)

\* C23: hold completion is sticky: once a tick has reported completion,
\* every later tick reports it again, and nothing but a pointer handler
\* ends it; the pointer's release and its exit from the button leave the
\* gesture idle (no press recorded).
C23_HoldSticky ==
  /\ [][(should_exit_from_button /\ TimerCallback) =>
          (/\ last'.reason = "HoldCompleted"
           /\ should_exit_from_button')]_vars
  /\ [][(should_exit_from_button /\ ~should_exit_from_button') =>
          PointerHandler]_vars
  /\ [][(/\ should_exit_from_button
         /\ mouse_up \/ mouse_dragged(FALSE)) =>
          (MOUSE_DOWN_TIME' = NoInstant /\ ~should_exit_from_button')]_vars

\* the press begun at time 0 was reported complete by two ticks: with no
\* tap and no countdown, both calls of terminate are theirs
C23_Witness ==
  /\ last = Obs("timer", "HoldCompleted", FALSE, None)
  /\ terminateCalls = 2
  /\ MOUSE_DOWN_TIME = Some(0)
  /\ EVENT_TAP = "null"
  /\ ~AUTO_EXIT_ENABLED
  /\ pc = "run"

\* the event tap's callback runs on an event of the session
TapHandler == \E e \in SessionEvents : event_tap_callback(e, FALSE)

\* C24: after startup each piece of state has its own writers: the event
\* tap's callback leaves the hold gesture (press time, inside flag), the
\* countdown (armed flag, start, duration, warning_shown) and the exit key
\* as they are, for every event; the tick and the pointer handlers leave
\* the tap (installed, enabled) and the exit key as they are; the tick
\* leaves the hold gesture as it is.
C24_SingleWriter ==
  /\ [][<<holdVars, countdownVars, WARNING_SHOWN, exitKeyVars>>'
           # <<holdVars, countdownVars, WARNING_SHOWN, exitKeyVars>> =>
          ~TapHandler]_vars
  /\ [][<<EVENT_TAP, tapEnabled, exitKeyVars>>'
           # <<EVENT_TAP, tapEnabled, exitKeyVars>> =>
          ~(TimerCallback \/ PointerHandler)]_vars
  /\ [][holdVars' # holdVars => ~TimerCallback]_vars

\* the callback has suppressed a key event while a press was recorded and
\* an armed countdown had given its warning
C24_Witness ==
  /\ last = Obs("event_tap", None, FALSE, "suppress")
  /\ MOUSE_DOWN_TIME # NoInstant
  /\ IS_MOUSE_INSIDE
  /\ AUTO_EXIT_ENABLED
  /\ WARNING_SHOWN
  /\ tapEnabled

\* C25: whenever the countdown is armed its duration is between 60 and
\* 86400 seconds, and the start time and the duration were stored before
\* the armed flag: no state, and so no tick, has the flag set with the
\* start time unset or the duration zero.
C25_ArmedInRange ==
  AUTO_EXIT_ENABLED =>
    /\ AUTO_EXIT_DURATION_SECS >= MIN_TIMER_SECONDS
    /\ AUTO_EXIT_DURATION_SECS <= MAX_TIMER_SECONDS
    /\ AUTO_EXIT_START_TIME # 0
    /\ AUTO_EXIT_START_TIME = WallStart

\* a tick has evaluated a countdown armed with the longest duration
C25_Witness ==
  /\ AUTO_EXIT_ENABLED
  /\ AUTO_EXIT_DURATION_SECS = MAX_TIMER_SECONDS
  /\ last = Obs("timer", None, FALSE, None)

\* C26: after any sequence of pointer events from the initial state (no
\* press time, inside = false), whenever a press time is recorded the
\* inside flag is true: the gesture is never pressed with the pointer
\* recorded as outside, and no progress above zero is drawn while the
\* pointer is recorded as outside.
C26_PressedInside ==
  /\ MOUSE_DOWN_TIME # NoInstant => IS_MOUSE_INSIDE
  /\ hold_progress[1] > 0 => IS_MOUSE_INSIDE

\* the pointer has come back into the button after the release and a
\* press time is recorded for it, with the flag set by the same handler
C26_Witness ==
  /\ last = Obs("mouse_dragged", None, FALSE, "enter")
  /\ MOUSE_DOWN_TIME = Some(MaxMono)
  /\ IS_MOUSE_INSIDE
  /\ ~buttonDown

DeadlineReached == wall - AUTO_EXIT_START_TIME >= AUTO_EXIT_DURATION_SECS

\* C28: once a countdown is armed, with a wall clock that never moves
\* backwards and ticks that keep being delivered, the session terminates,
\* whatever pointer and key events come in between: terminate is called
\* at the latest by the first tick with now - armed_at >= d (every such
\* tick calls it).
C28_CountdownLive ==
  /\ [][(TimerCallback /\ AUTO_EXIT_ENABLED /\ DeadlineReached) =>
          (/\ last'.reason \in {"TimerExpired", "HoldCompleted"}
           /\ terminateCalls' = Min(terminateCalls + 1, MaxCount))]_vars
  /\ AUTO_EXIT_ENABLED ~> (terminateCalls >= 1)

\* the first call of terminate is a tick's, for the expired countdown,
\* past the deadline, with a press recorded and the tap installed
C28_Witness ==
  /\ last.handler = "timer"
  /\ last.reason = "TimerExpired"
  /\ terminateCalls = 1
  /\ wall > AUTO_EXIT_START_TIME + AUTO_EXIT_DURATION_SECS
  /\ MOUSE_DOWN_TIME # NoInstant
  /\ tapEnabled

\* the five statics hold the exit key main() chose
ExitKeyWritten ==
  /\ ret.fn = "main"
  /\ ret.chosen # <<>>
  /\ LET key == ret.chosen[1]
     IN /\ EXIT_KEY_KEYCODE = key.keycode
        /\ EXIT_KEY_REQUIRES_CMD = key.requires_cmd
        /\ EXIT_KEY_REQUIRES_OPTION = key.requires_option
        /\ EXIT_KEY_REQUIRES_SHIFT = key.requires_shift
        /\ EXIT_KEY_REQUIRES_CTRL = key.requires_ctrl

\* C29: the chord configuration (the keycode and the four modifier
\* requirements, five separate statics) is written completely before the
\* event tap is installed and enabled, and is not written again after
\* that: no call of the tap's callback sees a chord that is partly the old
\* one and partly the new.
C29_ChordBeforeTap ==
  /\ [](pc \in {"event_tap", "run"} => ExitKeyWritten)
  /\ []((EVENT_TAP # "null" \/ last.handler = "event_tap") => ExitKeyWritten)
  /\ [][(pc \in {"event_tap", "run", "exited"}) =>
          (exitKeyVars' = exitKeyVars)]_vars

\* the callback has run on an event while the statics hold the chord of
\* the config file, Shift+Ctrl+U, written by set_exit_key's five stores
C29_Witness ==
  /\ last.handler = "event_tap"
  /\ arg.fn = "main"
  /\ arg.cli_exit_key = <<>>
  /\ EXIT_KEY_REQUIRES_CTRL
  /\ EXIT_KEY_REQUIRES_SHIFT
  /\ ~EXIT_KEY_REQUIRES_CMD
  /\ ~EXIT_KEY_REQUIRES_OPTION
====
